---- MODULE Spec2Model ----
(***************************************************************************)
(* A model of nss-rs: the layered file abstraction of src/nspr/fd.rs       *)
(* (File, BorrowedFile, FileMethods, FileWrapper, the wrapper_methods      *)
(* dispatch callbacks) and the TLSSocket of src/lib.rs that stacks a       *)
(* security layer over a File.                                             *)
(*                                                                         *)
(* Memory is modelled explicitly: PRFileDesc headers live at addresses,    *)
(* a WrappedFileImpl box embeds its header at the box address, operation   *)
(* tables are reference counted (Arc), and NSPR's layer push/pop swap      *)
(* header contents in place.                                               *)
(***************************************************************************)
EXTENDS Integers, Sequences, FiniteSets, TLC

\* ---------------------------------------------------------------- bounds
MaxAddr == 3
MaxTables == 1
MaxTls == 1
MaxLen == 1
MaxMoves == 1
IntBits == 3
MaxWraps == 2
MaxPending == 2
MaxWritten == 3
MaxThreads == 3
MaxUses == 2
MaxCallers == 2

\* Room for the handles of the lifecycle specifications, and for a pipe with
\* MaxWraps wraps over each of its two ends.
MemSize == IF MaxAddr >= 2 + 2 * MaxWraps THEN MaxAddr ELSE 2 + 2 * MaxWraps
Addr == 1..MemSize
TableId == 1..MaxTables
TlsId == 1..MaxTls

\* ---------------------------------------------------- program constants
\* nspr::fd::null(): the null RawFile.
null == 0

\* lazy_static WRAPPED_FILE_IDENT: the identity registered under "Rust".
WRAPPED_FILE_IDENT == "Rust"

\* PRInt32 is modelled IntBits + 1 bits wide (two's complement), usize wider:
\* std::i32::MAX is the largest value of that width, and TwoTo32 its modulus.
I32_MAX == 2 ^ IntBits - 1

TwoTo32 == 2 ^ (IntBits + 1)

\* `len as PRInt32`: narrowing of a usize to the signed foreign width.
AsI32(n) == ((n + I32_MAX + 1) % TwoTo32) - (I32_MAX + 1)

\* tests::handshake::fake_addr(): 127.0.0.1:443, named by its port.
fake_addr == 443

\* An address of a family that read_net_addr cannot translate.
BadFamilyAddr == fake_addr + 1

ByteOps == {"read", "write", "recv", "send"}
StatusOps == {"connect", "getsockname", "getpeername", "getsocketoption"}
Ops == ByteOps \cup StatusOps

\* The error an arbitrary transport reports (FakeSocket has its own two).
ErrKinds == {"PR_IO_ERROR"}

\* The element of a one-element set: Only({e(x) : x \in {v}}) evaluates v once
\* and names it x in e.
Only(S) == CHOOSE x \in S : TRUE

\* Rust values: Result<T> and a panic (trap) in its place.
Ok(v) == [k |-> "ok", v |-> v, e |-> "none"]
Err(e) == [k |-> "err", v |-> 0, e |-> e]
Trap == [k |-> "trap", v |-> 0, e |-> "none"]

\* ------------------------------------------------------------- the state
VARIABLES
    hdr,      \* Addr -> PRFileDesc contents at that address
    box,      \* Addr -> the WrappedFileImpl allocation whose prfd is at that address
    table,    \* TableId -> the Arc<PRIOMethods> of a FileWrapper
    file,     \* Addr -> the File value first created over that handle
    tls,      \* TlsId -> a TLSSocket value
    nclose,   \* Addr -> how often the native close ran for that handle
    nextAddr, \* next address the allocators hand out
    prError,  \* the thread-local NSPR error state
    last,     \* what the latest operation did (observation only)
    pipe,     \* the pipe of new_pipe: its two handles and the bytes in it
    once,     \* the lazily initialised identity tag and the threads using it
    conc      \* foreign threads inside dispatch callbacks, and the borrows held

vars ==
    <<hdr, box, table, file, tls, nclose, nextAddr, prError, last, pipe, once, conc>>

\* PRFileDesc { methods, secret, lower, higher, dtor, identity }.
\* mem is "none" (never allocated), "live" or "freed".
NoHdr ==
    [mem |-> "none", methods |-> "none", table |-> 0, secret |-> null,
     lower |-> null, higher |-> null, identity |-> "none"]

FreedHdr == [NoHdr EXCEPT !.mem = "freed"]

\* A transport handed to FileWrapper::wrap.
\*   "fake": tests::handshake::FakeSocket
\*   "any":  an arbitrary transport; what each of its methods does (return a
\*           result, or not be implemented at all) is drawn at every call
\*   "file": a File (nested wrap)
NoInner == [kind |-> "none", connected |-> FALSE, file |-> null]

NoBox == [st |-> "none", table |-> 0, inner |-> NoInner, frees |-> 0]

\* PRIOMethods built by FileWrapper::new: the slots that are Some(..).
WrapperSlots ==
    {"close", "read", "write", "connect", "recv", "send",
     "getsockname", "getpeername", "getsocketoption"}

NoTable == [st |-> "none", strong |-> 0, wrapper |-> FALSE, slots |-> {}]

NoFile == [st |-> "none", fd |-> null, closes |-> 0]

\* A TLSSocket: its File (fd), the File it consumed (inner), where the value
\* lives (loc, changed by a move), and the callback argument the security
\* engine holds for the authentication hook (hookArg, 0 when unset).
NoTls == [st |-> "none", fd |-> null, closes |-> 0, inner |-> null,
          loc |-> 0, hookArg |-> 0, model |-> 0]

\* One run of raw_auth_certificate_hook: the handle read through arg, the
\* handle passed in, whether auth_certificate was called and its result.
NoHook == [seen |-> null, fd |-> null, called |-> FALSE, cb |-> Ok(0),
           ret |-> "none"]

NoLast ==
    [kind |-> "idle", f |-> 0, op |-> "none", len |-> 0, res |-> Ok(0),
     ev |-> <<>>, errIn |-> "none", closed |-> FALSE, fdAtDrop |-> null,
     unimpl |-> FALSE, hk |-> NoHook, log |-> <<>>, pend |-> 0,
     model |-> 0, imported |-> FALSE, ffi |-> <<>>, bot |-> Ok(0),
     sec |-> "none"]

\* The pipe new_pipe made: its reader and writer handles, the bytes written
\* and not yet read (data), and what the program saw: the bytes its writes
\* reported as written and the bytes its reads returned.
NoPipe == [reader |-> null, writer |-> null, data |-> <<>>,
           written |-> <<>>, got |-> <<>>]

\* lazy_static WRAPPED_FILE_IDENT and the library behind it: whether
\* nspr::init has run, the state of the lazy cell (its Once), how often
\* PR_GetUniqueIdentity was called and whether init had run by then, the
\* tag stored; per thread its position, what it is doing, the tags it got and
\* its uses so far; the tags wrap stored in headers and the tags the
\* callbacks compared headers with.
ThreadId == 1..MaxThreads

NoOnce == [inited |-> FALSE, cell |-> "uninit", acquired |-> 0,
           early |-> FALSE, tag |-> 0,
           pc |-> [i \in ThreadId |-> "idle"],
           use |-> [i \in ThreadId |-> "none"],
           seen |-> [i \in ThreadId |-> {}],
           stamped |-> {}, checked |-> {},
           uses |-> [i \in ThreadId |-> 0]]

\* Foreign threads calling slots of the operation table: per thread where it
\* is in the callback, the handle, operation and argument it was given, the
\* allocation it borrowed, what the transport returned and the thread's own
\* error state; per allocation the shared and exclusive borrows of the
\* payload now held.
CallerId == 1..MaxCallers

NoCaller ==
    [pc |-> "idle", fd |-> null, op |-> "none", arg |-> 0, a |-> null,
     r |-> [k |-> "nocall", v |-> 0, e |-> "none"], err |-> "none"]

NoConc ==
    [th |-> [i \in CallerId |-> NoCaller],
     shared |-> [a \in Addr |-> 0],
     excl |-> [a \in Addr |-> 0]]

\* No operation's result is waiting to be looked at.
Idle == last.kind = "idle"

\* The part of the state the close traversal works on.
World == [hdr |-> hdr, box |-> box, table |-> table, file |-> file,
          nclose |-> nclose, trap |-> FALSE, uaf |-> FALSE, log |-> <<>>]

\* --------------------------------------------------------- NSPR layering
\* PR_PushIOLayer(stack, PR_TOP_IO_LAYER, layer): the contents of the two
\* headers are swapped so that the address of the top of the stack stays.
PR_PushIOLayer(h, stack, layer) ==
    LET copy == h[stack]
        h1 == [h EXCEPT ![stack] = [h[layer] EXCEPT !.lower = layer, !.higher = null],
                        ![layer] = [copy EXCEPT !.higher = stack]]
    IN  IF copy.lower # null
        THEN [h1 EXCEPT ![copy.lower].higher = layer]
        ELSE h1

\* PR_PopIOLayer(stack, PR_TOP_IO_LAYER): the inverse swap; the extracted
\* layer ends up at the address of the former second layer.
PR_PopIOLayer(h, stack) ==
    LET copy == h[stack]
        extract == copy.lower
        h1 == [h EXCEPT ![stack] = [h[extract] EXCEPT !.higher = null],
                        ![extract] = [copy EXCEPT !.higher = null, !.lower = null]]
    IN  IF h[extract].lower # null
        THEN [h1 EXCEPT ![h[extract].lower].higher = stack]
        ELSE h1

\* ------------------------------------------------ BorrowedFile, xlate_fd
\* BorrowedFile::from_raw_prfd: asserts the handle is non-null, no identity
\* comparison.
BorrowedFile_from_raw_prfd(fd) ==
    [fd |-> fd, checked |-> FALSE, trap |-> fd = null]

\* BorrowedFile::from_raw_prfd_checked: assert_eq!((*fd).identity, ident).
BorrowedFile_from_raw_prfd_checked(h, fd, ident) ==
    [fd |-> fd, checked |-> TRUE,
     trap |-> h[fd].identity # ident \/ fd = null]

\* wrapper_methods::xlate_fd
xlate_fd(h, fd) == BorrowedFile_from_raw_prfd_checked(h, fd, WRAPPED_FILE_IDENT)

\* The payload taken to be where the header is, not where the secret points.
get_ref_addr(h, this) == this.fd

\* BorrowedFile::get_ref / get_mut: the secret reinterpreted as the payload.
get_ref(h, this) == h[this.fd].secret

\* ------------------------------------------------------ close traversal
RECURSIVE PR_Close(_, _)

\* impl Drop for File: fd = mem::replace(&mut self.0, null()); close if set.
File_drop(self0, w) ==
    [self0 |-> null,
     closed |-> self0 # null,
     w |-> IF self0 # null THEN PR_Close(self0, w) ELSE w]

\* Drop of the Arc<PRIOMethods> held by a box or by a FileWrapper.
Arc_drop(t, w) ==
    LET n == w.table[t].strong - 1
    IN  IF n = 0
        THEN [w EXCEPT !.table[t] = [NoTable EXCEPT !.st = "freed"]]
        ELSE [w EXCEPT !.table[t].strong = n]

\* Drop of the transport value held by a box.
Inner_drop(inner, w) ==
    IF inner.kind = "file"
    THEN Only({[d.w EXCEPT !.file[inner.file].fd = d.self0,
                           !.file[inner.file].st = "dropped",
                           !.file[inner.file].closes =
                               @ + (IF d.closed THEN 1 ELSE 0)] :
               d \in {File_drop(w.file[inner.file].fd, w)}})
    ELSE w

\* The box is released and the transport in it is forgotten.
Box_drop_shallow(a, w) ==
    Arc_drop(w.box[a].table,
        [w EXCEPT !.box[a].st = "freed", !.box[a].frees = @ + 1,
                  !.hdr[a] = FreedHdr, !.log = Append(@, a)])

\* mem::drop(Box::from_raw(raw_box)): the fields go in declaration order
\* (prfd, _methods_ref, inner) and the allocation is released.
Box_drop(a, w) ==
    LET b == w.box[a]
        w1 == [w EXCEPT !.box[a].st = "freed",
                        !.box[a].frees = @ + 1,
                        !.hdr[a] = FreedHdr,
                        !.log = Append(@, a)]
        w2 == Arc_drop(b.table, w1)
    IN  Inner_drop(b.inner, w2)

\* A close callback that checks the descriptor and releases nothing.
wrapper_close_leak(fd, w) ==
    LET this == xlate_fd(w.hdr, fd)
    IN  IF this.trap THEN [w EXCEPT !.trap = TRUE] ELSE w

\* A close callback that frees what the secret points to, wherever the
\* header is.
wrapper_close_noaddr(fd, w) ==
    LET this == xlate_fd(w.hdr, fd)
    IN  IF this.trap THEN [w EXCEPT !.trap = TRUE]
        ELSE Box_drop(get_ref(w.hdr, this), w)

\* wrapper_methods::close
wrapper_close(fd, w) ==
    LET this == xlate_fd(w.hdr, fd)
        raw_box == get_ref(w.hdr, this)
    IN  IF this.trap THEN [w EXCEPT !.trap = TRUE]
        ELSE IF raw_box # fd THEN [w EXCEPT !.trap = TRUE]
        ELSE Box_drop(raw_box, w)

\* The security layer's close: pop the layer, destroy it, close what is now
\* at the top of the stack.
ssl_Close(fd, w) ==
    LET popped == w.hdr[fd].lower
        h1 == PR_PopIOLayer(w.hdr, fd)
        w1 == [w EXCEPT !.hdr = [h1 EXCEPT ![popped] = FreedHdr]]
    IN  PR_Close(fd, w1)

\* PR_Close(fd): (fd->methods->close)(fd).
PR_Close(fd, w) ==
    LET h == w.hdr[fd]
    IN  IF h.mem # "live" THEN [w EXCEPT !.uaf = TRUE]
        ELSE IF h.methods = "native"
        THEN [w EXCEPT !.hdr[fd] = FreedHdr, !.nclose[fd] = @ + 1,
                       !.log = Append(@, fd)]
        ELSE IF h.methods = "ssl" THEN ssl_Close(fd, w)
        ELSE IF w.table[h.table].st # "live" THEN [w EXCEPT !.uaf = TRUE]
        ELSE wrapper_close(fd, w)

\* A BorrowedFile with a destructor like File's.
BorrowedFile_drop_closes(self0, w) == File_drop(self0, w)

\* struct BorrowedFile has no Drop impl ("Like `File`, but with no `drop`"):
\* when the value goes, the handle and everything behind it stay.
BorrowedFile_drop(self0, w) ==
    [self0 |-> self0, closed |-> FALSE, w |-> w]


\* ------------------------------------------------- results across the FFI
\* What the bottom of a stack does at one call: a Result, or Unimpl when the
\* transport leaves the method to the trait's default body.
Unimpl == [k |-> "unimpl", v |-> 0, e |-> "none"]

\* usize counts a transport may report: within the buffer, one over it, and
\* one that narrows to a small PRInt32.
CountVals == (0..(MaxLen + 1)) \cup {TwoTo32 + 1}

Bots == {Ok(n) : n \in CountVals} \cup {Err(e) : e \in ErrKinds} \cup {Unimpl}

\* PRSocketOptionData.option: PR_SockOpt_Nonblocking is the first of the enum.
PR_SockOpt_Nonblocking == 0

\* nspr::net::read_net_addr: None for a family it cannot translate.
read_net_addr(addr) ==
    IF addr = BadFamilyAddr THEN [some |-> FALSE, v |-> 0]
    ELSE [some |-> TRUE, v |-> addr]

\* nspr::net::write_net_addr
write_net_addr(rust_addr) == rust_addr

\* wrap_callback(failed, f): Ok(t) is returned as t; Err(e) sets the
\* thread-local error state and returns `failed`; a panic is not caught.
wrap_callback(failed, r, err) ==
    IF r.k = "ok" THEN [out |-> "ret", val |-> r.v, err |-> err]
    ELSE IF r.k = "err" THEN [out |-> "ret", val |-> failed, err |-> r.e]
    ELSE [out |-> "trap", val |-> failed, err |-> err]

\* wrap_ffi(f): the failure sentinel of the foreign call becomes Err(failed()),
\* the error read back from the thread-local error state.
wrap_ffi(c, sentinel) ==
    IF c.out = "trap" THEN Trap
    ELSE IF c.val = sentinel THEN Err(c.s.err)
    ELSE Ok(c.val)

\* One invocation of a dispatch callback, as the foreign caller and the
\* transport see it: tres is what the transport's method returned, errMid the
\* thread-local error state when it had returned, errOut when the callback
\* returns.
Event(fd, op, amount, this, downcast, tres, errMid, wc) ==
    [fd |-> fd, op |-> op, amount |-> amount, checked |-> this.checked,
     downcast |-> downcast, tres |-> tres, errMid |-> errMid, errOut |-> wc.err,
     out |-> wc.out,
     ret |-> IF op \in ByteOps /\ wc.out = "ret" THEN wc.val ELSE 0,
     status |-> IF op \in StatusOps /\ wc.out = "ret" THEN wc.val ELSE "none"]

NoCall == [k |-> "nocall", v |-> 0, e |-> "none"]

\* The value of a dispatch callback: what it returns (or a trap), what it
\* wrote through its out-pointer, and the state it leaves.
Returned(wc, outp, s, ev) ==
    [out |-> wc.out, val |-> wc.val, outp |-> outp,
     s |-> [s EXCEPT !.err = wc.err, !.ev = Append(@, ev)]]

\* A default body that reports an error instead of panicking.
FileMethods_default_err(s) ==
    [r |-> Err("PR_NOT_IMPLEMENTED_ERROR"), s |-> [s EXCEPT !.unimpl = TRUE]]

\* trait FileMethods: the default body of every method is unimplemented!().
FileMethods_default(s) == [r |-> Trap, s |-> [s EXCEPT !.unimpl = TRUE]]

\* tests::handshake::FakeSocket (impl FileMethods): a is the box holding it.
FakeSocket_call(a, op, arg, s) ==
    LET me == s.box[a].inner
    IN  CASE op \in {"read", "recv"} -> [r |-> Ok(0), s |-> s]
          [] op \in {"write", "send"} -> [r |-> Ok(arg), s |-> s]
          [] op = "getpeername" ->
                [r |-> IF me.connected THEN Ok(fake_addr)
                       ELSE Err("PR_NOT_CONNECTED_ERROR"),
                 s |-> s]
          [] op = "connect" ->
                IF arg # fake_addr THEN [r |-> Trap, s |-> s]
                ELSE [r |-> IF me.connected THEN Err("PR_IS_CONNECTED_ERROR")
                            ELSE Ok(0),
                      s |-> [s EXCEPT !.box[a].inner.connected = TRUE]]
          [] OTHER -> FileMethods_default(s)

\* An arbitrary transport: a method it leaves to the trait's default, or a
\* result.  A status method's success carries unit, an address or a flag.
Any_call(op, bot, s) ==
    IF bot.k = "unimpl" THEN FileMethods_default(s)
    ELSE [r |-> IF bot.k = "err" THEN bot
                ELSE IF op \in ByteOps THEN bot
                ELSE IF op = "connect" THEN Ok(0)
                ELSE IF op = "get_nonblocking" THEN Ok(bot.v % 2)
                ELSE Ok(fake_addr),
          s |-> s]

RECURSIVE PR_Call(_, _, _, _, _)

\* The methods without their assert!(buf.len() <= i32::MAX as usize).
File_bytes_noassert(fd, op, len, bot, s) ==
    Only({[r |-> wrap_ffi(c, -1), s |-> c.s] :
          c \in {PR_Call(fd, op, AsI32(len), bot, s)}})

\* impl FileMethods for File: read, write, recv, send.
File_bytes(fd, op, len, bot, s) ==
    IF ~(len <= I32_MAX) THEN [r |-> Trap, s |-> s]
    ELSE Only({[r |-> wrap_ffi(c, -1), s |-> c.s] :
               c \in {PR_Call(fd, op, AsI32(len), bot, s)}})

\* impl FileMethods for File: connect.
File_connect(fd, addr, bot, s) ==
    Only({[r |-> wrap_ffi(c, "PR_FAILURE"), s |-> c.s] :
          c \in {PR_Call(fd, "connect", write_net_addr(addr), bot, s)}})

\* getsockname/getpeername that do not look at the status of the call.
File_getname_nocheck(fd, op, bot, s) ==
    Only({[r |-> Ok(read_net_addr(c.outp).v), s |-> c.s] :
          c \in {PR_Call(fd, op, 0, bot, s)}})

\* getsockname/getpeername that unwrap the translated address.
File_getname_unwrap(fd, op, bot, s) ==
    Only({[r |-> IF wrap_ffi(c, "PR_FAILURE").k # "ok" THEN wrap_ffi(c, "PR_FAILURE")
                 ELSE IF read_net_addr(c.outp).some THEN Ok(read_net_addr(c.outp).v)
                 ELSE Trap,
           s |-> c.s] :
          c \in {PR_Call(fd, op, 0, bot, s)}})

\* impl FileMethods for File: getsockname, getpeername.
File_getname(fd, op, bot, s) ==
    Only({[r |-> IF wrap_ffi(c, "PR_FAILURE").k # "ok" THEN wrap_ffi(c, "PR_FAILURE")
                 ELSE IF read_net_addr(c.outp).some THEN Ok(read_net_addr(c.outp).v)
                 ELSE Err("PR_ADDRESS_NOT_SUPPORTED_ERROR"),
           s |-> c.s] :
          c \in {PR_Call(fd, op, 0, bot, s)}})

\* impl FileMethods for File: get_nonblocking.
File_get_nonblocking(fd, bot, s) ==
    Only({[r |-> IF wrap_ffi(c, "PR_FAILURE").k # "ok" THEN wrap_ffi(c, "PR_FAILURE")
                 ELSE Ok(c.outp),
           s |-> c.s] :
          c \in {PR_Call(fd, "getsocketoption", PR_SockOpt_Nonblocking, bot, s)}})

\* A FileMethods method called on a File.
File_call(fd, op, arg, bot, s) ==
    IF op \in ByteOps THEN File_bytes(fd, op, arg, bot, s)
    ELSE IF op = "connect" THEN File_connect(fd, arg, bot, s)
    ELSE IF op = "get_nonblocking" THEN File_get_nonblocking(fd, bot, s)
    ELSE File_getname(fd, op, bot, s)

\* this.get_ref().<op>(..): the FileMethods method of the transport in box a.
Inner_call(a, op, arg, bot, s) ==
    LET inner == s.box[a].inner
    IN  IF inner.kind = "fake" THEN FakeSocket_call(a, op, arg, s)
        ELSE IF inner.kind = "file"
        THEN File_call(file[inner.file].fd, op, arg, bot, s)
        ELSE Any_call(op, bot, s)

\* A count of 0 taken for a failure: end-of-file reported as an error.
count_guard_zero_fails(r, amount) ==
    IF r.k # "ok" THEN r
    ELSE IF r.v = 0 THEN Err("PR_END_OF_FILE_ERROR")
    ELSE IF r.v <= amount THEN Ok(AsI32(r.v))
    ELSE Trap

\* The callback reports the whole buffer as moved.
count_guard_amount(r, amount) ==
    IF r.k # "ok" THEN r ELSE Ok(amount)

\* The narrowing without the assertion.
count_guard_noassert(r, amount) ==
    IF r.k # "ok" THEN r ELSE Ok(AsI32(r.v))

\* .map(|len| { assert!(len <= amount as usize); len as PRInt32 })
count_guard(r, amount) ==
    IF r.k # "ok" THEN r
    ELSE IF r.v <= amount THEN Ok(AsI32(r.v))
    ELSE Trap

\* wrapper_methods::read, write, recv, send share one body.
byte_dispatch(fd, op, amount, bot, s) ==
    LET this == xlate_fd(hdr, fd)
        stop == [out |-> "trap", val |-> -1, err |-> s.err]
    IN  IF this.trap \/ ~(amount >= 0)
        THEN Returned(stop, 0, s,
                 Event(fd, op, amount, this, FALSE, NoCall, s.err, stop))
        ELSE Only({Returned(wc, 0, c.s,
                       Event(fd, op, amount, this, TRUE, c.r, c.s.err, wc)) :
                   <<c, wc>> \in {<<d, wrap_callback(-1, count_guard(d.r, amount), d.s.err)>> :
                       d \in {Inner_call(get_ref(hdr, this), op, amount, bot, s)}}})

wrapper_read(fd, amount, bot, s) == byte_dispatch(fd, "read", amount, bot, s)

wrapper_write(fd, amount, bot, s) == byte_dispatch(fd, "write", amount, bot, s)

wrapper_recv(fd, amount, bot, s) == byte_dispatch(fd, "recv", amount, bot, s)

wrapper_send(fd, amount, bot, s) == byte_dispatch(fd, "send", amount, bot, s)

\* A failure turned into the sentinel by hand, the error state left alone.
status_map_silent(r) ==
    IF r.k = "ok" THEN Ok("PR_SUCCESS")
    ELSE IF r.k = "err" THEN Ok("PR_FAILURE")
    ELSE r

\* .map(|..| PR_SUCCESS)
status_map(r) == IF r.k = "ok" THEN Ok("PR_SUCCESS") ELSE r

\* wrapper_methods::connect
wrapper_connect(fd, addr, bot, s) ==
    LET this == xlate_fd(hdr, fd)
        stop == [out |-> "trap", val |-> "PR_FAILURE", err |-> s.err]
        rust_addr == read_net_addr(addr)
    IN  IF this.trap
        THEN Returned(stop, 0, s,
                 Event(fd, "connect", addr, this, FALSE, NoCall, s.err, stop))
        ELSE IF rust_addr.some
        THEN Only({Returned(wc, 0, c.s,
                       Event(fd, "connect", addr, this, TRUE, c.r, c.s.err, wc)) :
                   <<c, wc>> \in {<<d, wrap_callback("PR_FAILURE", status_map(d.r), d.s.err)>> :
                       d \in {Inner_call(get_ref(hdr, this), "connect", rust_addr.v, bot, s)}}})
        ELSE LET wc == wrap_callback("PR_FAILURE",
                           Err("PR_ADDRESS_NOT_SUPPORTED_ERROR"), s.err)
             IN  Returned(wc, 0, s,
                     Event(fd, "connect", addr, this, FALSE, NoCall, s.err, wc))

\* wrapper_methods::getsockname and getpeername share one body.
name_dispatch(fd, op, bot, s) ==
    LET this == xlate_fd(hdr, fd)
        stop == [out |-> "trap", val |-> "PR_FAILURE", err |-> s.err]
    IN  IF this.trap
        THEN Returned(stop, 0, s, Event(fd, op, 0, this, FALSE, NoCall, s.err, stop))
        ELSE Only({Returned(wc,
                       IF c.r.k = "ok" THEN write_net_addr(c.r.v) ELSE 0,
                       c.s, Event(fd, op, 0, this, TRUE, c.r, c.s.err, wc)) :
                   <<c, wc>> \in {<<d, wrap_callback("PR_FAILURE", status_map(d.r), d.s.err)>> :
                       d \in {Inner_call(get_ref(hdr, this), op, 0, bot, s)}}})

wrapper_getsockname(fd, bot, s) == name_dispatch(fd, "getsockname", bot, s)

wrapper_getpeername(fd, bot, s) == name_dispatch(fd, "getpeername", bot, s)

\* wrapper_methods::getsocketoption
wrapper_getsocketoption(fd, option, bot, s) ==
    LET this == xlate_fd(hdr, fd)
        stop == [out |-> "trap", val |-> "PR_FAILURE", err |-> s.err]
    IN  IF this.trap \/ option # PR_SockOpt_Nonblocking
        THEN Returned(stop, 0, s,
                 Event(fd, "getsocketoption", option, this, FALSE, NoCall, s.err, stop))
        ELSE Only({Returned(wc, IF c.r.k = "ok" THEN c.r.v ELSE 0,
                       c.s, Event(fd, "getsocketoption", option, this, TRUE, c.r, c.s.err, wc)) :
                   <<c, wc>> \in {<<d, wrap_callback("PR_FAILURE", status_map(d.r), d.s.err)>> :
                       d \in {Inner_call(get_ref(hdr, this), "get_nonblocking", 0, bot, s)}}})

\* The slot of the operation table a foreign call goes through.
wrapper_dispatch(fd, op, arg, bot, s) ==
    CASE op = "read" -> wrapper_read(fd, arg, bot, s)
      [] op = "write" -> wrapper_write(fd, arg, bot, s)
      [] op = "recv" -> wrapper_recv(fd, arg, bot, s)
      [] op = "send" -> wrapper_send(fd, arg, bot, s)
      [] op = "connect" -> wrapper_connect(fd, arg, bot, s)
      [] op = "getsockname" -> wrapper_getsockname(fd, bot, s)
      [] op = "getpeername" -> wrapper_getpeername(fd, bot, s)
      [] OTHER -> wrapper_getsocketoption(fd, arg, bot, s)

\* A native NSPR handle: a count within the amount or a success, or the
\* failure sentinel with the error set.  The address it gives for its own or
\* its peer's name can be of a family read_net_addr does not translate.
native_call(op, arg, bot, s) ==
    LET fail == IF op \in ByteOps THEN -1 ELSE "PR_FAILURE"
        e == IF bot.k = "err" THEN bot.e ELSE "PR_IO_ERROR"
    IN  IF bot.k = "ok" /\ (op \in StatusOps \/ arg >= 0)
        THEN [out |-> "ret",
              val |-> IF op \in ByteOps
                      THEN (IF bot.v <= arg THEN bot.v ELSE arg)
                      ELSE "PR_SUCCESS",
              outp |-> IF op = "getsocketoption" THEN bot.v % 2
                       ELSE IF bot.v % 2 = 1 THEN BadFamilyAddr
                       ELSE fake_addr,
              s |-> s]
        ELSE [out |-> "ret", val |-> fail, outp |-> 0, s |-> [s EXCEPT !.err = e]]

\* The first n bytes a buffer gives; beyond its end whatever memory holds.
Take(buf, n) == [i \in 1..n |-> IF i <= Len(buf) THEN buf[i] ELSE "junk"]

Min(a, b) == IF a <= b THEN a ELSE b

\* A handle of the pipe: a write takes `arg` bytes from the caller's buffer;
\* a read gives what is pending, up to `arg` bytes, and 0 at end of stream
\* (nothing pending, writer closed).  A read on an empty pipe whose writer
\* is open would block; it is never started (see PipeRead).
pipe_call(fd, op, arg, s) ==
    LET fail == [out |-> "ret", val |-> IF op \in ByteOps THEN -1 ELSE "PR_FAILURE",
                 outp |-> 0, s |-> [s EXCEPT !.err = "PR_IO_ERROR"]]
        n == Min(arg, Len(s.data))
    IN  IF op = "write" /\ fd = pipe.writer /\ arg >= 0
        THEN [out |-> "ret", val |-> arg, outp |-> 0,
              s |-> [s EXCEPT !.data = @ \o Take(s.buf, arg)]]
        ELSE IF op = "read" /\ fd = pipe.reader /\ arg >= 0
                  /\ (s.data # <<>> \/ s.wclosed)
        THEN [out |-> "ret", val |-> n, outp |-> 0,
              s |-> [s EXCEPT !.buf = SubSeq(s.data, 1, n),
                              !.data = SubSeq(s.data, n + 1, Len(s.data))]]
        ELSE fail

\* The security layer: status calls go to the layer below; a data call
\* drives the handshake, which sends and then receives on the layer below
\* and fails with end-of-file when the peer has closed.
ssl_call(fd, op, arg, bot, s) ==
    LET lower == hdr[fd].lower
    IN  IF op \in StatusOps THEN PR_Call(lower, op, arg, bot, s)
        ELSE Only({
                 IF snd.out = "trap" \/ snd.val = -1 THEN [snd EXCEPT !.val = -1]
                 ELSE Only({
                     IF rcv.out = "trap" \/ rcv.val = -1 THEN rcv
                     ELSE [out |-> "ret", val |-> -1, outp |-> 0,
                           s |-> [rcv.s EXCEPT !.err =
                                     IF rcv.val = 0 THEN "PR_END_OF_FILE_ERROR"
                                     ELSE "SSL_ERROR_RX_MALFORMED_HANDSHAKE"]] :
                     rcv \in {PR_Call(lower, "recv", MaxLen, bot, snd.s)}}) :
                 snd \in {PR_Call(lower, "send", MaxLen, bot, s)}})

\* PR_Read, PR_Write, ..: (fd->methods-><op>)(fd, ..).
PR_Call(fd, op, arg, bot, s0) ==
    LET h == hdr[fd]
        s == [s0 EXCEPT !.ffi = Append(@, [fd |-> fd, op |-> op, arg |-> arg])]
    IN  IF h.methods = "native" /\ fd \in {pipe.reader, pipe.writer}
        THEN pipe_call(fd, op, arg, s)
        ELSE IF h.methods = "native" THEN native_call(op, arg, bot, s)
        ELSE IF h.methods = "ssl" THEN ssl_call(fd, op, arg, bot, s)
        ELSE wrapper_dispatch(fd, op, arg, bot, s)

\* The writer end of the pipe has been closed.
WriterClosed == pipe.writer # null /\ nclose[pipe.writer] > 0

\* The state a call starts from: the error state, the boxes, no callback
\* run yet, the bytes in the pipe, the caller's buffer, and the list of the
\* foreign calls made (handle, operation, length or other argument).
CallState ==
    [err |-> prError, box |-> box, ev |-> <<>>, unimpl |-> FALSE,
     data |-> pipe.data, buf |-> <<>>, wclosed |-> WriterClosed,
     ffi |-> <<>>]

\* ------------------------------------------------------------------ Init
Init ==
    /\ hdr = [a \in Addr |-> NoHdr]
    /\ box = [a \in Addr |-> NoBox]
    /\ table = [t \in TableId |-> NoTable]
    /\ file = [a \in Addr |-> NoFile]
    /\ tls = [s \in TlsId |-> NoTls]
    /\ nclose = [a \in Addr |-> 0]
    /\ nextAddr = 1
    /\ prError = "none"
    /\ last = NoLast
    /\ pipe = NoPipe
    /\ once = NoOnce
    /\ conc = NoConc

\* ----------------------------------------------------- lifecycle actions
\* FileWrapper::new(file_type)
FileWrapper_new(t) ==
    /\ Idle
    /\ table[t].st = "none"
    /\ table' = [table EXCEPT ![t] =
           [st |-> "live", strong |-> 1, wrapper |-> TRUE, slots |-> WrapperSlots]]
    /\ last' = [NoLast EXCEPT !.kind = "wrapper_new", !.f = t]
    /\ UNCHANGED <<hdr, box, file, tls, nclose, nextAddr, prError, pipe, once, conc>>

\* new_pipe(): one native handle of the pair.
NativeFile ==
    /\ Idle
    /\ nextAddr <= MaxAddr
    /\ hdr' = [hdr EXCEPT ![nextAddr] =
           [NoHdr EXCEPT !.mem = "live", !.methods = "native", !.identity = "nspr"]]
    /\ file' = [file EXCEPT ![nextAddr] = [NoFile EXCEPT !.st = "user", !.fd = nextAddr]]
    /\ nextAddr' = nextAddr + 1
    /\ last' = [NoLast EXCEPT !.kind = "new_pipe", !.f = nextAddr]
    /\ UNCHANGED <<box, table, tls, nclose, prError, pipe, once, conc>>

\* A box that takes the table without cloning the Arc.
wrap_box_noclone(t, inner, raw) ==
    [hdr |-> [NoHdr EXCEPT !.mem = "live", !.methods = "wrapper", !.table = t,
                           !.secret = raw, !.identity = WRAPPED_FILE_IDENT],
     box |-> [st |-> "live", table |-> t, inner |-> inner, frees |-> 0],
     strong |-> table[t].strong]

\* The header and table reference FileWrapper::wrap stores for wrapper t.
wrap_box(t, inner, raw) ==
    [hdr |-> [NoHdr EXCEPT !.mem = "live", !.methods = "wrapper", !.table = t,
                           !.secret = raw, !.identity = WRAPPED_FILE_IDENT],
     box |-> [st |-> "live", table |-> t, inner |-> inner, frees |-> 0],
     strong |-> table[t].strong + 1]

\* FileWrapper::wrap(inner)
FileWrapper_wrap(t, inner) ==
    /\ Idle
    /\ table[t].st = "live" /\ table[t].wrapper
    /\ nextAddr \in Addr
    /\ inner.kind = "file" => file[inner.file].st = "user"
    /\ LET raw == nextAddr
           b == wrap_box(t, inner, raw)
       IN  /\ hdr' = [hdr EXCEPT ![raw] = b.hdr]
           /\ box' = [box EXCEPT ![raw] = b.box]
           /\ table' = [table EXCEPT ![t].strong = b.strong]
           /\ file' = [a \in Addr |->
                  IF a = raw THEN [NoFile EXCEPT !.st = "user", !.fd = raw]
                  ELSE IF inner.kind = "file" /\ a = inner.file
                  THEN [file[a] EXCEPT !.st = "inner"]
                  ELSE file[a]]
           /\ last' = [NoLast EXCEPT !.kind = "wrap", !.f = raw]
    /\ nextAddr' = nextAddr + 1
    /\ UNCHANGED <<tls, nclose, prError, pipe, once, conc>>

Wrap ==
    \E t \in TableId :
        /\ nextAddr <= MaxAddr
        /\ \/ \E k \in {"fake", "any"} :
                  FileWrapper_wrap(t, [NoInner EXCEPT !.kind = k])
           \/ \E f \in Addr :
                  /\ file[f].st = "user"
                  /\ FileWrapper_wrap(t, [NoInner EXCEPT !.kind = "file", !.file = f])

\* Drop of the FileWrapper value: its Arc goes.
FileWrapper_drop(t) ==
    /\ Idle
    /\ table[t].st = "live" /\ table[t].wrapper
    /\ LET w == Arc_drop(t, [World EXCEPT !.table[t].wrapper = FALSE])
       IN  table' = w.table
    /\ last' = [NoLast EXCEPT !.kind = "wrapper_drop", !.f = t]
    /\ UNCHANGED <<hdr, box, file, tls, nclose, nextAddr, prError, pipe, once, conc>>

\* A File owned by the program goes out of scope.
DropFile(f) ==
    /\ Idle
    /\ file[f].st = "user"
    /\ \E d \in {File_drop(file[f].fd, World)} :
           /\ hdr' = d.w.hdr
           /\ box' = d.w.box
           /\ table' = d.w.table
           /\ nclose' = d.w.nclose
           /\ file' = [d.w.file EXCEPT ![f].fd = d.self0, ![f].st = "dropped",
                          ![f].closes = @ + (IF d.closed THEN 1 ELSE 0)]
           /\ last' = [NoLast EXCEPT !.kind = "drop", !.f = f, !.closed = d.closed,
                          !.fdAtDrop = file[f].fd, !.log = d.w.log,
                          !.res = IF d.w.trap \/ d.w.uaf THEN Trap ELSE Ok(0)]
    /\ UNCHANGED <<tls, nextAddr, prError, pipe, once, conc>>

\* into_raw_prfd without the forget: self is dropped when the call returns.
File_into_raw_prfd_dropped(self0, w) ==
    Only({[fd |-> self0, self0 |-> d.self0, closed |-> d.closed, w |-> d.w] :
          d \in {File_drop(self0, w)}})

\* File::into_raw_prfd: fd = self.as_raw_prfd(); mem::forget(self); fd.
\* No destructor runs for self: the handle stays in the forgotten value.
File_into_raw_prfd(self0, w) ==
    [fd |-> self0, self0 |-> self0, closed |-> FALSE, w |-> w]

IntoRaw(f) ==
    /\ Idle
    /\ file[f].st = "user"
    /\ \E d \in {File_into_raw_prfd(file[f].fd, World)} :
           /\ hdr' = d.w.hdr
           /\ box' = d.w.box
           /\ table' = d.w.table
           /\ nclose' = d.w.nclose
           /\ file' = [d.w.file EXCEPT ![f].fd = d.self0, ![f].st = "raw",
                          ![f].closes = @ + (IF d.closed THEN 1 ELSE 0)]
           /\ last' = [NoLast EXCEPT !.kind = "into_raw", !.f = f, !.fdAtDrop = d.fd]
    /\ UNCHANGED <<tls, nextAddr, prError, pipe, once, conc>>

\* --------------------------------------------------------------- TLSSocket
\* SSL_ImportFD(null, fd) succeeding: a new security layer at address layer
\* is pushed on top of the stack at fd; the handle returned is fd.
SSL_ImportFD(h, fd, layer) ==
    PR_PushIOLayer(
        [h EXCEPT ![layer] = [NoHdr EXCEPT !.mem = "live", !.methods = "ssl",
                                 !.secret = layer, !.identity = "SSL"]],
        fd, layer)

\* The import succeeded and inner is dropped at the end of the constructor.
forget_inner_dropped(self0, w) == File_drop(self0, w)

\* mem::forget(inner) once the import has succeeded: inner's destructor
\* does not run, the handle now belongs to the File of the TLSSocket.
forget_inner(self0, w) ==
    [self0 |-> self0, closed |-> FALSE, w |-> w]

\* A constructor that goes on to the import with a model.
model_check_skip(model) == "go"

\* if let Some(_) = model { unimplemented!(); }
model_check(model) == IF model # 0 THEN "trap" ELSE "go"

\* model.map_or(null(), |fd| fd.as_raw_prfd()): the model is moved into the
\* closure and goes when the closure returns.
model_gone(model, w) ==
    IF model = 0 THEN [w |-> w, tls |-> tls]
    ELSE Only({[w |-> d.w,
                tls |-> [tls EXCEPT ![model].fd = d.self0, ![model].st = "dropped",
                            ![model].closes = @ + (IF d.closed THEN 1 ELSE 0)]] :
               d \in {File_drop(tls[model].fd, w)}})

\* TLSSocket::new_with_model(inner, callbacks, model), at its three exits:
\*   a model is given: unimplemented!(), inner and model are dropped unwinding;
\*   the import fails: try! returns the error and inner is dropped;
\*   the import succeeds: mem::forget(inner), Ok(TLSSocket { file: sock, .. }).
TLSSocket_new_with_model(f, model, imported, t) ==
    /\ Idle
    /\ file[f].st = "user"
    /\ model # 0 => tls[model].st = "live"
    /\ \E d \in {File_drop(file[f].fd, World)},
          m \in {model_gone(model, World)} :
       IF model_check(model) = "trap"
       THEN \E dm \in {File_drop(tls[model].fd, d.w)} :
                /\ hdr' = dm.w.hdr
                /\ box' = dm.w.box
                /\ table' = dm.w.table
                /\ nclose' = dm.w.nclose
                /\ file' = [dm.w.file EXCEPT ![f].fd = d.self0, ![f].st = "dropped",
                               ![f].closes = @ + (IF d.closed THEN 1 ELSE 0)]
                /\ tls' = [tls EXCEPT ![model].fd = dm.self0, ![model].st = "dropped",
                              ![model].closes = @ + (IF dm.closed THEN 1 ELSE 0)]
                /\ last' = [NoLast EXCEPT !.kind = "tls_new", !.f = f, !.res = Trap,
                               !.model = model]
                /\ UNCHANGED <<nextAddr, prError, pipe, once, conc>>
       ELSE IF ~imported
       THEN \E di \in {File_drop(file[f].fd, m.w)} :
                /\ hdr' = di.w.hdr
                /\ box' = di.w.box
                /\ table' = di.w.table
                /\ nclose' = di.w.nclose
                /\ file' = [di.w.file EXCEPT ![f].fd = di.self0, ![f].st = "dropped",
                               ![f].closes = @ + (IF di.closed THEN 1 ELSE 0)]
                /\ tls' = m.tls
                /\ last' = [NoLast EXCEPT !.kind = "tls_new", !.f = f,
                               !.closed = di.closed, !.model = model,
                               !.res = Err("PR_OUT_OF_MEMORY_ERROR")]
                /\ prError' = "PR_OUT_OF_MEMORY_ERROR"
                /\ UNCHANGED <<nextAddr, pipe, once, conc>>
       ELSE /\ m.tls[t].st = "none"
            /\ nextAddr <= MaxAddr
            /\ \E k \in {forget_inner(file[f].fd,
                              [m.w EXCEPT !.hdr = SSL_ImportFD(m.w.hdr, file[f].fd, nextAddr)])} :
                   /\ hdr' = k.w.hdr
                   /\ box' = k.w.box
                   /\ table' = k.w.table
                   /\ nclose' = k.w.nclose
                   /\ file' = [k.w.file EXCEPT ![f].fd = k.self0, ![f].st = "forgotten",
                                  ![f].closes = @ + (IF k.closed THEN 1 ELSE 0)]
            /\ nextAddr' = nextAddr + 1
            /\ tls' = [m.tls EXCEPT ![t] =
                   [NoTls EXCEPT !.st = "live", !.fd = file[f].fd, !.inner = f,
                                 !.loc = 1, !.model = model,
                                 !.hookArg = IF model = 0 THEN 0 ELSE tls[model].hookArg]]
            /\ last' = [NoLast EXCEPT !.kind = "tls_new", !.f = f, !.res = Ok(t),
                           !.model = model, !.imported = TRUE]
            /\ UNCHANGED <<prError, pipe, once, conc>>

\* TLSSocket::new(inner, callbacks)
TLSSocket_new(f, imported, t) == TLSSocket_new_with_model(f, 0, imported, t)

\* A TLSSocket goes out of scope: its File is dropped.
DropTLS(t) ==
    /\ Idle
    /\ tls[t].st = "live"
    /\ \E d \in {File_drop(tls[t].fd, World)} :
           /\ hdr' = d.w.hdr
           /\ box' = d.w.box
           /\ table' = d.w.table
           /\ nclose' = d.w.nclose
           /\ file' = d.w.file
           /\ tls' = [tls EXCEPT ![t].fd = d.self0, ![t].st = "dropped",
                         ![t].closes = @ + (IF d.closed THEN 1 ELSE 0)]
           /\ last' = [NoLast EXCEPT !.kind = "tls_drop", !.f = t, !.closed = d.closed,
                          !.fdAtDrop = tls[t].fd, !.log = d.w.log,
                          !.res = IF d.w.trap \/ d.w.uaf THEN Trap ELSE Ok(0)]
    /\ UNCHANGED <<nextAddr, prError, pipe, once, conc>>

\* TLSSocket::cleartext().get_ref(): a BorrowedFile over the layer below the
\* security layer, and its secret taken as the transport.
TLSSocket_cleartext(t) ==
    BorrowedFile_from_raw_prfd(hdr[tls[t].fd].lower)

Cleartext(t) ==
    /\ Idle
    /\ tls[t].st = "live"
    /\ LET this == TLSSocket_cleartext(t)
           wc == [out |-> IF this.trap THEN "trap" ELSE "ret", val |-> 0, err |-> prError]
       IN  /\ last' = [NoLast EXCEPT !.kind = "cleartext", !.f = t, !.op = "get_ref",
                          !.ev = <<Event(this.fd, "get_ref", get_ref(hdr, this), this,
                                         ~this.trap, NoCall, prError, wc)>>]
           /\ \E d \in {BorrowedFile_drop(this.fd, World)} :
                  /\ hdr' = d.w.hdr
                  /\ box' = d.w.box
                  /\ table' = d.w.table
                  /\ file' = d.w.file
                  /\ nclose' = d.w.nclose
    /\ UNCHANGED <<tls, nextAddr, prError, pipe, once, conc>>

\* sock.cleartext().<op>(..): a FileMethods method called through the deref
\* of a BorrowedFile to File; the BorrowedFile goes at the end of the
\* statement.
BorrowedCall(t, op, arg, bot) ==
    /\ Idle
    /\ tls[t].st = "live"
    /\ ~TLSSocket_cleartext(t).trap
    /\ \E c \in {File_call(TLSSocket_cleartext(t).fd, op, arg, bot, CallState)} :
           /\ prError' = c.s.err
           /\ last' = [NoLast EXCEPT !.kind = "borrowed_call", !.f = t, !.op = op,
                          !.len = arg, !.res = c.r, !.ev = c.s.ev, !.errIn = prError,
                          !.unimpl = c.s.unimpl]
           /\ \E d \in {BorrowedFile_drop(TLSSocket_cleartext(t).fd,
                              [World EXCEPT !.box = c.s.box])} :
                  /\ hdr' = d.w.hdr
                  /\ box' = d.w.box
                  /\ table' = d.w.table
                  /\ file' = d.w.file
                  /\ nclose' = d.w.nclose
    /\ UNCHANGED <<tls, nextAddr, pipe, once, conc>>

\* SECStatus
SECStatus == {"SECSuccess", "SECFailure", "SECWouldBlock"}

\* failed(): the error in the thread-local error state, as an Err.
failed(err) == Err(err)

\* result_secstatus with would-block taken for a generic failure.
result_secstatus_stale(status, err) ==
    IF status = "SECSuccess" THEN Ok(0) ELSE failed(err)

\* result_secstatus: success, the error of the error state, or would-block
\* whatever the error state holds.
result_secstatus(status, err) ==
    CASE status = "SECSuccess" -> Ok(0)
      [] status = "SECFailure" -> failed(err)
      [] status = "SECWouldBlock" -> Err("PR_WOULD_BLOCK_ERROR")

\* SSL_AuthCertificateHook as the engine answers it: a success registers the
\* callback and its argument, a failure sets the error state, a would-block
\* leaves the error state as it was.
SSL_AuthCertificateHook(status, e) ==
    [status |-> status,
     err |-> IF status = "SECFailure" THEN e ELSE prError]

\* TLSSocket::use_auth_certificate_hook: the engine keeps the address of self.
UseHook(t, status, e) ==
    /\ Idle
    /\ tls[t].st = "live"
    /\ \E c \in {SSL_AuthCertificateHook(status, e)} :
           /\ tls' = IF c.status = "SECSuccess"
                     THEN [tls EXCEPT ![t].hookArg = tls[t].loc] ELSE tls
           /\ prError' = c.err
           /\ last' = [NoLast EXCEPT !.kind = "use_hook", !.f = t,
                          !.sec = c.status, !.errIn = prError,
                          !.res = result_secstatus(c.status, c.err)]
    /\ UNCHANGED <<hdr, box, table, file, nclose, nextAddr, pipe, once, conc>>

\* TLSSocket::unset_auth_certificate_hook
UnsetHook(t, status, e) ==
    /\ Idle
    /\ tls[t].st = "live" /\ tls[t].hookArg # 0
    /\ \E c \in {SSL_AuthCertificateHook(status, e)} :
           /\ tls' = IF c.status = "SECSuccess"
                     THEN [tls EXCEPT ![t].hookArg = 0] ELSE tls
           /\ prError' = c.err
           /\ last' = [NoLast EXCEPT !.kind = "unset_hook", !.f = t,
                          !.sec = c.status, !.errIn = prError,
                          !.res = result_secstatus(c.status, c.err)]
    /\ UNCHANGED <<hdr, box, table, file, nclose, nextAddr, pipe, once, conc>>

\* The TLSSocket value is moved (returned, pushed into a collection, ..).
MoveTLS(t) ==
    /\ Idle
    /\ tls[t].st = "live" /\ tls[t].loc <= MaxMoves
    /\ tls' = [tls EXCEPT ![t].loc = @ + 1]
    /\ last' = [NoLast EXCEPT !.kind = "move", !.f = t]
    /\ UNCHANGED <<hdr, box, table, file, nclose, nextAddr, prError, pipe, once, conc>>

\* The hook without its assert_eq!: the capability is called on any handle.
raw_auth_certificate_hook_noassert(seen, fd, cb, err) ==
    [hk |-> [seen |-> seen, fd |-> fd, called |-> TRUE, cb |-> cb,
             ret |-> IF cb.k = "ok" THEN "SECSuccess" ELSE "SECFailure"],
     res |-> Ok(0),
     err |-> IF cb.k = "ok" THEN err ELSE cb.e]

\* raw_auth_certificate_hook(arg, fd, check_sig, is_server): seen is
\* sock.as_raw_prfd() read through arg, cb what auth_certificate returns.
raw_auth_certificate_hook(seen, fd, cb, err) ==
    IF seen # fd
    THEN [hk |-> [seen |-> seen, fd |-> fd, called |-> FALSE, cb |-> NoCall,
                  ret |-> "none"],
          res |-> Trap, err |-> err]
    ELSE [hk |-> [seen |-> seen, fd |-> fd, called |-> TRUE, cb |-> cb,
                  ret |-> IF cb.k = "ok" THEN "SECSuccess" ELSE "SECFailure"],
          res |-> Ok(0),
          err |-> IF cb.k = "ok" THEN err ELSE cb.e]

\* The security engine runs the registered hook on its socket.  Through an
\* argument that still is the address of the TLSSocket the handle read is the
\* socket's; through a stale one it is whatever the memory holds.
HookInvoke(t, seen, cb) ==
    /\ Idle
    /\ tls[t].st = "live" /\ tls[t].hookArg # 0
    /\ tls[t].hookArg = tls[t].loc => seen = tls[t].fd
    /\ \E h \in {raw_auth_certificate_hook(seen, tls[t].fd, cb, prError)} :
           /\ prError' = h.err
           /\ last' = [NoLast EXCEPT !.kind = "hook", !.f = t, !.res = h.res,
                          !.hk = h.hk, !.errIn = prError]
    /\ UNCHANGED <<hdr, box, table, file, tls, nclose, nextAddr, pipe, once, conc>>

\* ------------------------------------------------------------- operations
TraitOps ==
    ByteOps \cup {"connect", "getsockname", "getpeername", "get_nonblocking"}

\* The handles the program holds an owning File over.
OwnedHandles ==
    {file[f].fd : f \in {g \in Addr : file[g].st = "user"}}
        \cup {tls[t].fd : t \in {u \in TlsId : tls[u].st = "live"}}

\* Arguments of a method called on a File: a buffer length, or an address.
UserArgs(op) ==
    IF op \in ByteOps THEN (0..MaxLen) \cup {I32_MAX, I32_MAX + 1}
    ELSE IF op = "connect" THEN {fake_addr}
    ELSE {0}

\* Arguments a foreign caller passes to a dispatch callback.
RawArgs(op) ==
    IF op \in ByteOps THEN (-1)..MaxLen
    ELSE IF op = "connect" THEN {fake_addr, BadFamilyAddr}
    ELSE IF op = "getsocketoption" THEN {PR_SockOpt_Nonblocking, PR_SockOpt_Nonblocking + 1}
    ELSE {0}

\* The program calls a FileMethods method on a File (or on a TLSSocket, which
\* derefs to its File).
CallFile(fd, op, arg, bot) ==
    /\ Idle
    /\ fd \in OwnedHandles
    /\ \E c \in {File_call(fd, op, arg, bot, CallState)} :
           /\ prError' = c.s.err
           /\ box' = c.s.box
           /\ last' = [NoLast EXCEPT !.kind = "call", !.f = fd, !.op = op,
                          !.len = arg, !.res = c.r, !.ev = c.s.ev, !.errIn = prError,
                          !.unimpl = c.s.unimpl, !.ffi = c.s.ffi, !.bot = bot]
    /\ UNCHANGED <<hdr, table, file, tls, nclose, nextAddr, pipe, once, conc>>

\* A foreign caller invokes a slot of the operation table on a wrapped layer.
Dispatch(fd, op, arg, bot) ==
    /\ Idle
    /\ hdr[fd].mem = "live" /\ hdr[fd].methods = "wrapper"
    /\ \E c \in {PR_Call(fd, op, arg, bot, CallState)} :
           /\ prError' = c.s.err
           /\ box' = c.s.box
           /\ last' = [NoLast EXCEPT !.kind = "dispatch", !.f = fd, !.op = op,
                          !.len = arg, !.ev = c.s.ev, !.errIn = prError,
                          !.unimpl = c.s.unimpl,
                          !.res = IF c.out = "trap" THEN Trap ELSE Ok(0)]
    /\ UNCHANGED <<hdr, table, file, tls, nclose, nextAddr, pipe, once, conc>>

\* The handles foreign code holds: those given away by into_raw_prfd, and
\* the layers of the stacks the security engine works on.
ForeignHandles ==
    {file[f].fd : f \in {g \in Addr : file[g].st = "raw"}}
        \cup {tls[t].fd : t \in {u \in TlsId : tls[u].st = "live"}}
        \cup {hdr[tls[t].fd].lower : t \in {u \in TlsId : tls[u].st = "live"}}

\* Foreign code invokes the close slot of the wrapper's table on a handle.
RawClose(fd) ==
    /\ Idle
    /\ fd \in ForeignHandles /\ fd # null
    /\ hdr[fd].mem = "live"
    /\ \E w \in {wrapper_close(fd, World)} :
           /\ hdr' = w.hdr
           /\ box' = w.box
           /\ table' = w.table
           /\ file' = w.file
           /\ nclose' = w.nclose
           /\ last' = [NoLast EXCEPT !.kind = "raw_close", !.f = fd, !.op = "close",
                          !.log = w.log,
                          !.res = IF w.trap \/ w.uaf THEN Trap ELSE Ok(0)]
    /\ UNCHANGED <<tls, nextAddr, prError, pipe, once, conc>>

\* ------------------------------------------------------------ the pipe
\* new_pipe(): PR_CreatePipe, a File over each of the two handles.
new_pipe ==
    /\ Idle
    /\ pipe.reader = null
    /\ nextAddr + 1 <= MemSize
    /\ hdr' = [a \in Addr |->
           IF a \in {nextAddr, nextAddr + 1}
           THEN [NoHdr EXCEPT !.mem = "live", !.methods = "native", !.identity = "nspr"]
           ELSE hdr[a]]
    /\ file' = [a \in Addr |->
           IF a \in {nextAddr, nextAddr + 1}
           THEN [NoFile EXCEPT !.st = "user", !.fd = a]
           ELSE file[a]]
    /\ pipe' = [NoPipe EXCEPT !.reader = nextAddr, !.writer = nextAddr + 1]
    /\ nextAddr' = nextAddr + 2
    /\ last' = [NoLast EXCEPT !.kind = "pipe", !.f = nextAddr]
    /\ UNCHANGED <<box, table, tls, nclose, prError, once, conc>>

\* The native handle under the wraps of handle fd.
RECURSIVE Bottom(_)
Bottom(fd) ==
    IF fd = null \/ hdr[fd].mem # "live" \/ hdr[fd].methods # "wrapper" THEN fd
    ELSE IF box[hdr[fd].secret].inner.kind # "file" THEN fd
    ELSE Bottom(file[box[hdr[fd].secret].inner.file].fd)

\* reader = wrapper.wrap(reader) / writer = wrapper.wrap(writer)
WrapEnd(f) ==
    /\ pipe.reader # null
    /\ file[f].st = "user"
    /\ \E t \in TableId :
           FileWrapper_wrap(t, [NoInner EXCEPT !.kind = "file", !.file = f])

\* What a program writes: the byte strings of up to MaxLen bytes.
Bytes == {"a", "b"}

WriteData == UNION {[1..n -> Bytes] : n \in 0..MaxLen}

\* writer.write(data) on the (wrapped) writer end.
PipeWrite(f, data) ==
    /\ Idle
    /\ file[f].st = "user" /\ Bottom(file[f].fd) = pipe.writer
    /\ Len(pipe.data) + Len(data) <= MaxPending
    /\ Len(pipe.written) + Len(data) <= MaxWritten
    /\ \E c \in {File_call(file[f].fd, "write", Len(data), Ok(0),
                       [CallState EXCEPT !.buf = data])} :
           /\ prError' = c.s.err
           /\ pipe' = [pipe EXCEPT !.data = c.s.data,
                          !.written = IF c.r.k = "ok" THEN @ \o Take(data, c.r.v) ELSE @]
           /\ last' = [NoLast EXCEPT !.kind = "pipe_write", !.f = f, !.op = "write",
                          !.len = Len(data), !.res = c.r, !.ev = c.s.ev,
                          !.errIn = prError, !.pend = Len(pipe.data)]
    /\ UNCHANGED <<hdr, box, table, file, tls, nclose, nextAddr, once, conc>>

\* reader.read(&mut buf[..len]) on the (wrapped) reader end.  The read of an
\* empty pipe whose writer is open blocks, so it is not a step.
PipeRead(f, len) ==
    /\ Idle
    /\ file[f].st = "user" /\ Bottom(file[f].fd) = pipe.reader
    /\ pipe.data # <<>> \/ WriterClosed
    /\ \E c \in {File_call(file[f].fd, "read", len, Ok(0), CallState)} :
           /\ prError' = c.s.err
           /\ pipe' = [pipe EXCEPT !.data = c.s.data,
                          !.got = IF c.r.k = "ok" THEN @ \o Take(c.s.buf, c.r.v) ELSE @]
           /\ last' = [NoLast EXCEPT !.kind = "pipe_read", !.f = f, !.op = "read",
                          !.len = len, !.res = c.r, !.ev = c.s.ev,
                          !.errIn = prError, !.pend = Len(pipe.data)]
    /\ UNCHANGED <<hdr, box, table, file, tls, nclose, nextAddr, once, conc>>

\* The program has looked at the result of its latest operation.
Return ==
    /\ ~Idle
    /\ last' = NoLast
    /\ UNCHANGED <<hdr, box, table, file, tls, nclose, nextAddr, prError, pipe, once, conc>>

\* Object lifetimes, with the operations on a narrow choice of inputs.
Next ==
    \/ \E t \in TableId : FileWrapper_new(t)
    \/ NativeFile
    \/ Wrap
    \/ \E t \in TableId : FileWrapper_drop(t)
    \/ \E f \in Addr : DropFile(f)
    \/ \E f \in Addr : IntoRaw(f)
    \/ \E f \in Addr, ok \in BOOLEAN, t \in TlsId : TLSSocket_new(f, ok, t)
    \/ \E t \in TlsId : DropTLS(t)
    \/ \E fd \in Addr, op \in {"read", "connect"} :
           \E arg \in UserArgs(op) \cap {0, fake_addr} : CallFile(fd, op, arg, Ok(0))
    \/ \E fd \in Addr : Dispatch(fd, "getpeername", 0, Err("PR_IO_ERROR"))
    \/ Return

Spec == Init /\ [][Next]_vars

\* The operations on every input, over the stacks the program can build.
NextCalls ==
    \/ \E t \in TableId : FileWrapper_new(t)
    \/ NativeFile
    \/ Wrap
    \/ \E f \in Addr, t \in TlsId : TLSSocket_new(f, TRUE, t)
    \/ \E fd \in Addr, op \in TraitOps, bot \in Bots :
           \E arg \in UserArgs(op) : CallFile(fd, op, arg, bot)
    \/ \E fd \in Addr, op \in Ops, bot \in Bots :
           \E arg \in RawArgs(op) : Dispatch(fd, op, arg, bot)
    \/ \E t \in TlsId : Cleartext(t)
    \/ Return

SpecCalls == Init /\ [][NextCalls]_vars

\* The TLSSocket and its authentication hook.
NextTls ==
    \/ \E t \in TableId : FileWrapper_new(t)
    \/ NativeFile
    \/ Wrap
    \/ \E f \in Addr, ok \in BOOLEAN, t \in TlsId : TLSSocket_new(f, ok, t)
    \/ \E f \in Addr, model \in TlsId, ok \in BOOLEAN, t \in TlsId :
           TLSSocket_new_with_model(f, model, ok, t)
    \/ \E t \in TlsId : DropTLS(t)
    \/ \E f \in Addr : IntoRaw(f)
    \/ \E fd \in Addr : RawClose(fd)
    \/ \E t \in TlsId : Cleartext(t)
    \/ \E t \in TlsId, op \in {"read", "write", "getpeername"}, bot \in Bots :
           \E arg \in UserArgs(op) \cap {0, MaxLen} : BorrowedCall(t, op, arg, bot)
    \/ \E t \in TlsId, status \in SECStatus, e \in ErrKinds : UseHook(t, status, e)
    \/ \E t \in TlsId, status \in SECStatus, e \in ErrKinds : UnsetHook(t, status, e)
    \/ \E t \in TlsId : MoveTLS(t)
    \/ \E t \in TlsId, seen \in 0..MaxAddr, cb \in {Ok(0)} \cup {Err(e) : e \in ErrKinds} :
           HookInvoke(t, seen, cb)
    \/ Return

SpecTls == Init /\ [][NextTls]_vars

\* A pipe, each end wrapped any number of times, written, read and dropped.
NextPipe ==
    \/ \E t \in TableId : FileWrapper_new(t)
    \/ new_pipe
    \/ \E f \in Addr : WrapEnd(f)
    \/ \E f \in Addr, data \in WriteData : PipeWrite(f, data)
    \/ \E f \in Addr, len \in 0..(MaxLen + 1) : PipeRead(f, len)
    \/ \E f \in Addr : DropFile(f)
    \/ Return

SpecPipe == Init /\ [][NextPipe]_vars

\* ------------------------------------------- the lazily acquired identity
\* A thread begins a use of *WRAPPED_FILE_IDENT: FileWrapper::wrap filling a
\* header, or xlate_fd in a dispatch callback.
LazyUses == {"wrap", "dispatch"}

FirstUse(i, use) ==
    /\ Idle
    /\ once.pc[i] = "idle" /\ once.uses[i] < MaxUses
    /\ once' = [once EXCEPT !.pc[i] = "deref", !.use[i] = use]
    /\ UNCHANGED <<hdr, box, table, file, tls, nclose, nextAddr, prError, last, pipe, conc>>

\* An entry test that lets a thread in while another runs the initializer.
Once_enter_racy(cell) == cell # "done"

\* Once::call_once behind lazy_static: one caller finds the cell
\* uninitialized and runs the initializer.
Once_enter(cell) == cell = "uninit"

\* Deref of the lazy static: the first caller runs the initializer, a caller
\* arriving while it runs waits, a caller arriving later reads the value.
LazyDeref(i) ==
    /\ once.pc[i] = "deref"
    /\ \/ /\ Once_enter(once.cell)
          /\ once' = [once EXCEPT !.cell = "running", !.pc[i] = "init"]
       \/ /\ once.cell = "done"
          /\ once' = [once EXCEPT !.pc[i] = "read"]
    /\ UNCHANGED <<hdr, box, table, file, tls, nclose, nextAddr, prError, last, pipe, conc>>

\* super::init() in the initializer.
nspr_init(i) ==
    /\ once.pc[i] = "init"
    /\ once' = [once EXCEPT !.inited = TRUE, !.pc[i] = "acquire"]
    /\ UNCHANGED <<hdr, box, table, file, tls, nclose, nextAddr, prError, last, pipe, conc>>

\* ffi::PR_GetUniqueIdentity: every call gives a tag not given before.  The
\* initializer's value becomes the value of the static.
PR_GetUniqueIdentity(i) ==
    /\ once.pc[i] = "acquire"
    /\ once' = [once EXCEPT !.acquired = @ + 1, !.tag = once.acquired + 1,
                            !.early = @ \/ ~once.inited,
                            !.cell = "done", !.pc[i] = "read"]
    /\ UNCHANGED <<hdr, box, table, file, tls, nclose, nextAddr, prError, last, pipe, conc>>

\* The thread has the value: wrap stores it in the header it builds, the
\* callback compares the header it was given with it.
LazyRead(i) ==
    /\ once.pc[i] = "read"
    /\ once' = [once EXCEPT !.pc[i] = "idle", !.use[i] = "none",
                            !.seen[i] = @ \cup {once.tag},
                            !.uses[i] = @ + 1,
                            !.stamped = IF once.use[i] = "wrap"
                                        THEN @ \cup {once.tag} ELSE @,
                            !.checked = IF once.use[i] = "dispatch"
                                        THEN @ \cup {once.tag} ELSE @]
    /\ UNCHANGED <<hdr, box, table, file, tls, nclose, nextAddr, prError, last, pipe, conc>>

\* Threads using the identity tag for the first time, in any interleaving.
NextLazy ==
    \/ \E i \in ThreadId, use \in LazyUses : FirstUse(i, use)
    \/ \E i \in ThreadId : LazyDeref(i)
    \/ \E i \in ThreadId : nspr_init(i)
    \/ \E i \in ThreadId : PR_GetUniqueIdentity(i)
    \/ \E i \in ThreadId : LazyRead(i)

SpecLazy == Init /\ [][NextLazy]_vars

\* ---------------------------------------- dispatch from several threads
\* The operations the foreign threads call, each with one argument.
CallerOps == {"read", "connect", "getpeername"}

CallerArg(op) ==
    IF op = "read" THEN MaxLen ELSE IF op = "connect" THEN fake_addr ELSE 0

\* A thread of the foreign engine calls a slot of the table on a handle.
CallerEnter(i, fd, op) ==
    /\ Idle
    /\ conc.th[i].pc = "idle"
    /\ fd \in OwnedHandles
    /\ hdr[fd].mem = "live" /\ hdr[fd].methods = "wrapper"
    /\ conc' = [conc EXCEPT !.th[i] = [NoCaller EXCEPT !.pc = "entered", !.fd = fd,
                                           !.op = op, !.arg = CallerArg(op)]]
    /\ UNCHANGED <<hdr, box, table, file, tls, nclose, nextAddr, prError, last,
                   pipe, once>>

\* this.get_mut(): an exclusive borrow of the payload.
exclusive_borrow(b, a) == [b EXCEPT !.excl[a] = @ + 1]

\* this.get_ref(): a shared borrow of the payload for the time of the call.
shared_borrow(b, a) == [b EXCEPT !.shared[a] = @ + 1]

\* The borrow ends when the closure returns.
borrow_end(b, a) ==
    IF b.excl[a] > 0 THEN [b EXCEPT !.excl[a] = @ - 1]
    ELSE [b EXCEPT !.shared[a] = @ - 1]

\* let this = xlate_fd(fd); assert!(amount >= 0); this.get_ref()
CallerXlate(i) ==
    /\ Idle
    /\ conc.th[i].pc = "entered"
    /\ LET c == conc.th[i]
           this == xlate_fd(hdr, c.fd)
       IN  IF this.trap \/ (c.op \in ByteOps /\ ~(c.arg >= 0))
           THEN /\ conc' = [conc EXCEPT !.th[i] = NoCaller]
                /\ last' = [NoLast EXCEPT !.kind = "callback", !.f = c.fd,
                               !.op = c.op, !.res = Trap]
           ELSE /\ conc' = [shared_borrow(conc, get_ref(hdr, this))
                               EXCEPT !.th[i].pc = "borrowed",
                                      !.th[i].a = get_ref(hdr, this)]
                /\ last' = last
    /\ UNCHANGED <<hdr, box, table, file, tls, nclose, nextAddr, prError, pipe, once>>

\* The transport's method runs on the borrowed payload; what it writes is
\* its own state.
CallerTransport(i, bot) ==
    /\ Idle
    /\ conc.th[i].pc = "borrowed"
    /\ \E c \in {Inner_call(conc.th[i].a, conc.th[i].op,
                     IF conc.th[i].op = "connect"
                     THEN read_net_addr(conc.th[i].arg).v ELSE conc.th[i].arg,
                     bot, [CallState EXCEPT !.err = conc.th[i].err])} :
           /\ box' = c.s.box
           /\ conc' = [conc EXCEPT !.th[i].pc = "called", !.th[i].r = c.r,
                                   !.th[i].err = c.s.err]
    /\ UNCHANGED <<hdr, table, file, tls, nclose, nextAddr, prError, last,
                   pipe, once>>

\* The result is mapped and leaves through wrap_callback: the caller gets
\* the value or the failure sentinel, its thread's error state and, for an
\* address, what was written through its out-pointer; the borrow ends.
CallerReturn(i) ==
    /\ Idle
    /\ conc.th[i].pc = "called"
    /\ LET c == conc.th[i]
           wc == IF c.op \in ByteOps
                 THEN wrap_callback(-1, count_guard(c.r, c.arg), c.err)
                 ELSE wrap_callback("PR_FAILURE", status_map(c.r), c.err)
       IN  /\ conc' = [borrow_end(conc, c.a) EXCEPT !.th[i] = NoCaller]
           /\ last' = [NoLast EXCEPT !.kind = "callback", !.f = c.fd, !.op = c.op,
                          !.len = IF c.op = "getpeername" /\ c.r.k = "ok"
                                  THEN write_net_addr(c.r.v) ELSE 0,
                          !.errIn = wc.err,
                          !.res = IF wc.out = "trap" THEN Trap
                                  ELSE IF c.r.k = "ok" THEN Ok(0) ELSE Err(wc.err)]
    /\ UNCHANGED <<hdr, box, table, file, tls, nclose, nextAddr, prError, pipe, once>>

\* Wrapped handles and threads of the foreign engine calling their slots,
\* step by step in any interleaving.
NextConc ==
    \/ \E t \in TableId : FileWrapper_new(t)
    \/ Wrap
    \/ \E i \in CallerId, fd \in Addr, op \in CallerOps : CallerEnter(i, fd, op)
    \/ \E i \in CallerId : CallerXlate(i)
    \/ \E i \in CallerId, bot \in {Ok(0), Err("PR_IO_ERROR")} : CallerTransport(i, bot)
    \/ \E i \in CallerId : CallerReturn(i)
    \/ Return

SpecConc == Init /\ [][NextConc]_vars

\* ================================================================ claims
\* How often the close of the handle first created at address a has run:
\* the native close, or the release of the box by the wrapper's close.
Closed(a) == nclose[a] + box[a].frees

\* ---------------------------------------------------------------- C1
\* C1: for every File value, over every sequence of use, move,
\* into_raw_prfd and drop, PR_Close is invoked on its handle at most once;
\* a drop invokes it exactly when the handle held at drop time is non-null;
\* a File consumed by into_raw_prfd never closes its handle, which stays
\* open.
C1_CloseAtMostOnce ==
    /\ \A f \in Addr :
           /\ file[f].closes <= 1
           /\ Closed(f) <= 1
           /\ file[f].st = "dropped" => file[f].closes = 1 /\ file[f].fd = null
           /\ file[f].st = "raw" =>
                  /\ file[f].closes = 0
                  /\ file[f].fd # null
                  /\ Closed(f) = 0
                  /\ hdr[file[f].fd].mem = "live"
    /\ \A t \in TlsId : tls[t].closes <= 1
    /\ last.kind \in {"drop", "tls_drop"} =>
           (last.closed <=> last.fdAtDrop # null)
    /\ last.kind = "into_raw" => ~last.closed /\ last.fdAtDrop # null

\* A File has just been dropped and closed its handle while another File
\* was consumed by into_raw_prfd.
C1_Witness ==
    /\ last.kind = "drop" /\ last.closed
    /\ file[last.f].closes = 1
    /\ \E g \in Addr : file[g].st = "raw"

\* ---------------------------------------------------------------- C2
\* The File that owns the box at address a: the File wrap returned, or the
\* TLSSocket that consumed it.
OwnerDropped(a) ==
    \/ file[a].st = "dropped"
    \/ \E t \in TlsId : tls[t].st = "dropped" /\ tls[t].inner = a

\* C2: every WrappedFileImpl allocation made by wrap is freed exactly once
\* and only by the close dispatch callback (which runs in the drop of a
\* File): none is freed twice, none is freed by a step that is not a
\* close, and none remains allocated after its owning File was dropped.
C2_BoxFreedOnce ==
    /\ [](\A a \in Addr :
              /\ box[a].frees <= 1
              /\ box[a].st = "freed" <=> box[a].frees = 1
              /\ box[a].st # "none" /\ OwnerDropped(a) => box[a].st = "freed")
    /\ [][\A a \in Addr :
              box'[a].frees # box[a].frees =>
                  /\ last'.kind \in {"drop", "tls_drop", "tls_new"}
                  /\ last'.kind = "tls_new" => last'.res.k # "ok"]_vars

\* A TLSSocket over a File that wraps a wrapped File was dropped: the one
\* close released both boxes.
C2_Witness ==
    /\ last.kind = "tls_drop"
    /\ \E a, b \in Addr :
           /\ a # b
           /\ box[a].st = "freed" /\ box[b].st = "freed"
           /\ box[a].inner.kind = "file" /\ box[a].inner.file = b

\* ---------------------------------------------------------------- C5
\* C5: for every call of TLSSocket::new the inner File's handle is closed
\* exactly once over the life of the program.  On success inner's own
\* destructor never runs (the value is forgotten) and the handle is closed
\* only by the drop of the TLSSocket; on an import failure inner is dropped,
\* which closes its handle once, and no TLSSocket exists for it.
C5_InnerClosedOnce ==
    /\ \A f \in Addr : Closed(f) <= 1
    /\ \A t \in TlsId :
           /\ tls[t].st = "live" =>
                  /\ file[tls[t].inner].st = "forgotten"
                  /\ file[tls[t].inner].closes = 0
                  /\ Closed(tls[t].inner) = 0
                  /\ hdr[tls[t].fd].mem = "live"
           /\ tls[t].st = "dropped" =>
                  /\ file[tls[t].inner].st = "forgotten"
                  /\ file[tls[t].inner].closes = 0
                  /\ tls[t].closes = 1
                  /\ Closed(tls[t].inner) = 1
    /\ \A f \in Addr :
           file[f].st = "dropped" =>
               \A t \in TlsId : tls[t].st # "none" => tls[t].inner # f
    /\ last.kind = "tls_new" /\ last.res.k = "err" =>
           /\ file[last.f].st = "dropped"
           /\ file[last.f].closes = 1
           /\ Closed(last.f) = 1
           /\ \A t \in TlsId : tls[t].st # "none" => tls[t].inner # last.f
    /\ last.kind = "tls_new" /\ last.res.k = "ok" =>
           /\ tls[last.res.v].st = "live"
           /\ tls[last.res.v].inner = last.f

\* A TLSSocket built over a wrapped File was dropped, and that drop closed
\* the inner handle.
C5_Witness ==
    /\ last.kind = "tls_drop"
    /\ tls[last.f].st = "dropped"
    /\ box[tls[last.f].inner].frees = 1
    /\ file[tls[last.f].inner].closes = 0

\* ---------------------------------------------------------------- C8
\* C8: while a File made by wrap is live, the operation table its
\* descriptor points to is allocated and holds the wrapper's callbacks,
\* also after the FileWrapper was dropped; the table is released only after
\* the FileWrapper and every File wrapped through it are gone.
C8_TableOutlivesWrapper ==
    /\ \A a \in Addr :
           box[a].st = "live" =>
               /\ table[box[a].table].st = "live"
               /\ table[box[a].table].slots = WrapperSlots
    /\ \A a \in Addr :
           hdr[a].mem = "live" /\ hdr[a].methods = "wrapper" =>
               /\ table[hdr[a].table].st = "live"
               /\ table[hdr[a].table].slots = WrapperSlots
    /\ \A t \in TableId :
           table[t].st = "freed" =>
               \A a \in Addr : box[a].table = t => box[a].st # "live"
    /\ \A t \in TableId :
           table[t].st = "live" /\ table[t].wrapper => table[t].strong >= 1

\* The FileWrapper was just dropped while a File wrapped through it lives.
C8_Witness ==
    /\ last.kind = "wrapper_drop"
    /\ ~table[last.f].wrapper
    /\ \E a \in Addr : box[a].st = "live" /\ box[a].table = last.f

\* ------------------------------------------------- dispatch events
\* The dispatch callbacks the latest operation ran, innermost first.
Events == {last.ev[i] : i \in DOMAIN last.ev}

\* ---------------------------------------------------------------- C3
\* C3: a read, write, recv or send dispatch callback that returns success
\* returns a count between 0 and the amount it was asked for; a transport
\* result that reports more than the amount makes the callback trap, it is
\* never returned.
C3_CountWithinAmount ==
    \A e \in Events :
        e.op \in ByteOps =>
            /\ e.out = "ret" /\ e.ret # -1 => 0 <= e.ret /\ e.ret <= e.amount
            /\ e.out = "ret" /\ e.tres.k = "ok" => e.ret = e.tres.v
            /\ e.tres.k = "ok" /\ e.tres.v > e.amount => e.out = "trap"

\* A transport reported more bytes than the buffer holds and the callback
\* trapped.
C3_Witness ==
    \E e \in Events :
        /\ e.op \in ByteOps
        /\ e.tres.k = "ok" /\ e.tres.v > e.amount
        /\ e.out = "trap"

\* ---------------------------------------------------------------- C6
\* What a dispatch callback returns for a transport result that it passes
\* on: Ok as the byte count or PR_SUCCESS with the error state as the
\* transport left it, Err(e) as -1 or PR_FAILURE with the error state e.
PassedOn(e) ==
    /\ e.out = "ret"
    /\ e.tres.k = "ok" =>
           /\ e.op \in ByteOps => e.ret = e.tres.v
           /\ e.op \in StatusOps => e.status = "PR_SUCCESS"
           /\ e.errOut = e.errMid
    /\ e.tres.k = "err" =>
           /\ e.op \in ByteOps => e.ret = -1
           /\ e.op \in StatusOps => e.status = "PR_FAILURE"
           /\ e.errOut = e.tres.e

\* C6 as stated: for every non-close dispatch callback and every transport
\* result, Ok is returned as the success sentinel or the byte count with
\* the error state untouched, Err sets the error state to that error and
\* returns the failure sentinel.
C6_EveryResultPassedOn ==
    \A e \in Events : e.tres.k \in {"ok", "err"} => PassedOn(e)

\* C6 amended: the same for every Err and for every Ok except a byte count
\* above the requested amount; for that Ok the callback traps, returns
\* nothing and leaves the error state as the transport left it.
C6_ResultPassedOnOrTrapped ==
    \A e \in Events :
        e.tres.k \in {"ok", "err"} =>
            IF e.op \in ByteOps /\ e.tres.k = "ok" /\ e.tres.v > e.amount
            THEN e.out = "trap" /\ e.errOut = e.errMid
            ELSE PassedOn(e)

\* A transport returned an error different from the error state, and the
\* callback stored it and returned the failure sentinel.
C6_Witness ==
    \E e \in Events :
        /\ e.tres.k = "err"
        /\ e.errMid # e.tres.e
        /\ e.errOut = e.tres.e
        /\ e.out = "ret"

\* ---------------------------------------------------------------- C7
\* C7: when a capability method of the transport returns an error kind,
\* the caller of the same method of the File interface on the wrapped
\* handle gets that error kind, through any number of nested wrap layers
\* (and through a security layer for the calls it forwards); a success of
\* the transport (for a byte count: one within the buffer) is a success
\* for the caller.
C7_ErrorRoundTrip ==
    last.kind = "call" /\ last.ev # <<>>
        /\ (last.op \in ByteOps => hdr[last.f].methods = "wrapper") =>
        LET b == last.ev[1].tres
        IN  /\ b.k = "err" => last.res = Err(b.e)
            /\ b.k = "ok" /\ (last.op \in ByteOps => b.v <= last.len) =>
                   last.res.k = "ok"
            /\ b.k = "ok" /\ last.op \in ByteOps /\ b.v <= last.len =>
                   last.res = b

\* getpeername on a never-connected FakeSocket under two wrap layers gives
\* the caller "not connected", which was not the error state before.
C7_Witness ==
    /\ last.kind = "call" /\ last.op = "getpeername"
    /\ Len(last.ev) >= 2
    /\ last.ev[1].tres = Err("PR_NOT_CONNECTED_ERROR")
    /\ last.res = Err("PR_NOT_CONNECTED_ERROR")
    /\ last.errIn # "PR_NOT_CONNECTED_ERROR"

\* --------------------------------------------------------------- C10
\* C10: a capability method the transport left unimplemented traps when it
\* is called, directly or through a dispatch callback, and a socket-option
\* query for an option other than nonblocking traps: no callback on the way
\* returns a failure sentinel or a success, and the error state is not
\* written.
C10_UnimplementedTraps ==
    /\ last.kind \in {"call", "dispatch"} /\ last.unimpl =>
           /\ last.res = Trap
           /\ \E e \in Events : e.tres = Trap
           /\ \A e \in Events : e.out = "trap" /\ e.errOut = last.errIn
    /\ \A e \in Events :
           e.op = "getsocketoption" /\ e.amount # PR_SockOpt_Nonblocking =>
               e.out = "trap" /\ e.tres = NoCall /\ e.errOut = e.errMid

\* A method nobody implemented was called through two wrap layers.
C10_Witness ==
    /\ last.kind = "call" /\ last.unimpl
    /\ Len(last.ev) >= 2
    /\ last.res = Trap

\* ---------------------------------------------------------------- C4
\* C4: whenever the secret of a layer is reinterpreted as a typed inner
\* object (in a dispatch callback, or by get_ref/get_mut of a BorrowedFile,
\* the one TLSSocket::cleartext returns included), the identity tag of that
\* layer was compared with the wrapper's identity tag before and found
\* equal.
C4_DowncastAfterIdentityCheck ==
    \A e \in Events :
        e.downcast =>
            /\ e.checked
            /\ hdr[e.fd].identity = WRAPPED_FILE_IDENT

\* ---------------------------------------------------------------- C9
\* C9: every run of the authentication hook dispatch compares the handle
\* of the socket it recovered from its argument with the handle the
\* security engine passed before it calls auth_certificate, and traps when
\* they differ; it returns SECSuccess exactly when auth_certificate
\* returned Ok; when auth_certificate returned Err the error is written to
\* the thread-local error state and SECFailure is returned.
C9_HookChecksHandle ==
    last.kind = "hook" =>
        /\ last.hk.called => last.hk.seen = last.hk.fd
        /\ last.hk.seen # last.hk.fd =>
               /\ last.res = Trap
               /\ ~last.hk.called
               /\ last.hk.ret = "none"
               /\ prError = last.errIn
        /\ last.hk.ret = "SECSuccess" <=> (last.hk.called /\ last.hk.cb.k = "ok")
        /\ last.hk.called /\ last.hk.cb.k = "ok" => prError = last.errIn
        /\ last.hk.called /\ last.hk.cb.k = "err" =>
               /\ last.hk.ret = "SECFailure"
               /\ prError = last.hk.cb.e

\* The hook ran on the socket's own handle, auth_certificate refused, and
\* the error state changed to its error.
C9_Witness ==
    /\ last.kind = "hook"
    /\ last.hk.called /\ last.hk.cb.k = "err"
    /\ last.hk.ret = "SECFailure"
    /\ prError = last.hk.cb.e /\ last.errIn # prError

\* --------------------------------------------------------------- C11
\* What is open and what is allocated: header memory, boxes, tables, the
\* close counts of the handles and of the File values.
Resources ==
    [hdr |-> [a \in Addr |-> hdr[a].mem],
     box |-> [a \in Addr |-> <<box[a].st, box[a].frees>>],
     table |-> [t \in TableId |-> <<table[t].st, table[t].strong>>],
     nclose |-> nclose,
     closes |-> [a \in Addr |-> file[a].closes]]

\* C11: creating a BorrowedFile, using it (get_ref/get_mut, read, write and
\* the other File methods through its deref) and dropping it never closes
\* the handle and never frees the wrapped allocation: the open handles and
\* live allocations are the same after the BorrowedFile is gone as before
\* it was made.  The BorrowedFile is the one cleartext returns; the calls
\* made through it run the dispatch callbacks, which make their own.
C11_BorrowedFileFrame ==
    [][last'.kind \in {"cleartext", "borrowed_call"} =>
           Resources' = Resources]_vars

\* A write went through the BorrowedFile of cleartext into a wrapped
\* transport, and the box is still live.
C11_Witness ==
    /\ last.kind = "borrowed_call" /\ last.op = "write"
    /\ last.ev # <<>>
    /\ box[tls[last.f].inner].st = "live"
    /\ hdr[tls[last.f].fd].mem = "live"

\* --------------------------------------------------------------- C12
\* C12: a pipe whose ends are wrapped any number of times behaves like the
\* bare pipe for every sequence of writes and reads: the bytes the reads
\* returned, followed by the bytes still pending, are the bytes the writes
\* reported, in order; a write reports the whole buffer; a read returns the
\* lesser of its buffer length and the pending count, so a buffer shorter
\* than the pending data gets exactly its length and the rest stays for the
\* next read.
C12_WrappedPipeIsPipe ==
    /\ pipe.got \o pipe.data = pipe.written
    /\ last.kind = "pipe_write" => last.res = Ok(last.len)
    /\ last.kind = "pipe_read" => last.res = Ok(Min(last.len, last.pend))

\* A read through two wrap layers with a buffer shorter than the pending
\* data, written through a wrapped writer, returned the buffer length.
C12_Witness ==
    /\ last.kind = "pipe_read"
    /\ Len(last.ev) >= 2
    /\ last.len >= 1 /\ last.len < last.pend
    /\ last.res = Ok(last.len)
    /\ pipe.data # <<>>
    /\ \E g \in Addr : file[g].st = "user" /\ Bottom(file[g].fd) = pipe.writer
                          /\ file[g].fd # pipe.writer

\* --------------------------------------------------------------- C13
\* The layers under handle a, outermost first, as they are before a close.
IsChain(log) ==
    /\ log # <<>>
    /\ \A i \in 1..(Len(log) - 1) :
           /\ box[log[i]].inner.kind = "file"
           /\ box[log[i]].inner.file = log[i + 1]
    /\ box[log[Len(log)]].inner.kind # "file"

\* C13: dropping a File that is N wraps over a handle runs a close
\* traversal that ends, closes every layer once, outermost first, the
\* innermost handle included; so after the wrapped writer end of a pipe is
\* dropped and the pending data is consumed, a read on the reader end
\* returns 0 and not an error.
C13_CloseTraversal ==
    /\ last.kind = "drop" =>
           /\ last.res = Ok(0)
           /\ last.log[1] = last.fdAtDrop
           /\ IsChain(last.log)
           /\ \A i \in DOMAIN last.log :
                  /\ Closed(last.log[i]) = 1
                  /\ hdr[last.log[i]].mem = "freed"
                  /\ \A j \in DOMAIN last.log : last.log[i] = last.log[j] => i = j
    /\ last.kind = "pipe_read" /\ WriterClosed /\ last.pend = 0 =>
           last.res = Ok(0)

\* The writer end under two wraps was dropped, the data was consumed, and a
\* read through a wrapped reader returned 0.
C13_Witness ==
    /\ last.kind = "pipe_read" /\ last.pend = 0 /\ last.len >= 1
    /\ last.res = Ok(0)
    /\ last.ev # <<>>
    /\ pipe.written # <<>> /\ pipe.got = pipe.written
    /\ nclose[pipe.writer] = 1
    /\ \E a, b \in Addr : a # b /\ box[a].st = "freed" /\ box[b].st = "freed"

\* --------------------------------------------------------------- C18
\* C18: configuring a new socket from a model never leaks or duplicates a
\* live callback registration: every call of new_with_model with a model
\* traps before the import, so no socket exists that was stacked with a
\* model and none carries a registration copied from one.
C18_NoImportWithModel ==
    /\ last.kind = "tls_new" /\ last.model # 0 =>
           last.res = Trap /\ ~last.imported
    /\ \A t \in TlsId : tls[t].st # "none" => tls[t].model = 0

\* new_with_model was called with a live model that had its hook
\* registered, and trapped.
C18_Witness ==
    /\ last.kind = "tls_new" /\ last.model # 0
    /\ last.res = Trap
    /\ tls[last.model].hookArg # 0
    /\ tls[last.model].st = "dropped"

\* --------------------------------------------------------------- C14
\* C14: when the close callback is invoked on a handle whose address is not
\* the address of the header inside the allocation its secret points to
\* (the contents were relocated by layering and not moved back), or whose
\* identity tag is not the wrapper's, it traps before anything is freed:
\* every allocation and every handle is as it was.
C14_CloseChecksAddress ==
    [][last'.kind = "raw_close"
           /\ (hdr[last'.f].identity # WRAPPED_FILE_IDENT
                  \/ hdr[last'.f].secret # last'.f) =>
           /\ last'.res = Trap
           /\ last'.log = <<>>
           /\ Resources' = Resources
           /\ hdr' = hdr]_vars

\* The close callback was invoked on the wrapper's header while it sits
\* below a security layer, away from its allocation, and trapped.
C14_Witness ==
    /\ last.kind = "raw_close"
    /\ last.res = Trap
    /\ hdr[last.f].identity = WRAPPED_FILE_IDENT
    /\ hdr[last.f].secret # last.f
    /\ box[hdr[last.f].secret].st = "live"

\* --------------------------------------------------------------- C15
\* C15: read, write, recv and send of File called with a buffer longer than
\* the largest PRInt32 trap before any foreign call is made; for every
\* buffer they accept, the length the foreign call gets is the buffer's
\* length, not wrapped around.  The read, write, recv and send callbacks
\* trap on a negative amount before the transport is invoked.
C15_LengthsInRange ==
    /\ last.kind = "call" /\ last.op \in ByteOps =>
           IF last.len > I32_MAX
           THEN last.res = Trap /\ last.ffi = <<>> /\ last.ev = <<>>
           ELSE /\ last.ffi # <<>>
                /\ last.ffi[1].op = last.op
                /\ last.ffi[1].arg = last.len
    /\ \A e \in Events :
           e.op \in ByteOps /\ e.amount < 0 =>
               e.out = "trap" /\ e.tres = NoCall /\ ~e.downcast

\* A read with a buffer one byte longer than the largest PRInt32 trapped on
\* a wrapped handle without reaching its callback.
C15_Witness ==
    /\ last.kind = "call" /\ last.op = "read"
    /\ last.len = I32_MAX + 1
    /\ last.res = Trap
    /\ hdr[last.f].methods = "wrapper"

\* --------------------------------------------------------------- C16
\* C16: an address of an unsupported family is a recoverable error, never a
\* trap.  The connect callback given such an address returns PR_FAILURE
\* with the address-not-supported error set and does not call the
\* transport's connect.  getsockname and getpeername of File return the
\* address-not-supported error when the foreign call succeeded and its
\* address cannot be translated.
C16_UnsupportedAddress ==
    /\ \A e \in Events :
           e.op = "connect" /\ e.amount = BadFamilyAddr
               /\ hdr[e.fd].identity = WRAPPED_FILE_IDENT =>
               /\ e.out = "ret"
               /\ e.status = "PR_FAILURE"
               /\ e.errOut = "PR_ADDRESS_NOT_SUPPORTED_ERROR"
               /\ e.tres = NoCall
    /\ last.kind = "call" /\ last.op \in {"getsockname", "getpeername"}
           /\ hdr[Bottom(last.f)].methods = "native"
           /\ last.bot.k = "ok" /\ last.bot.v % 2 = 1 =>
           last.res = Err("PR_ADDRESS_NOT_SUPPORTED_ERROR")

\* getpeername on a wrapped native handle whose peer address is of an
\* unsupported family gave the address-not-supported error.
C16_Witness ==
    /\ last.kind = "call" /\ last.op = "getpeername"
    /\ last.ev # <<>>
    /\ hdr[Bottom(last.f)].methods = "native"
    /\ last.bot.k = "ok" /\ last.bot.v % 2 = 1
    /\ last.res = Err("PR_ADDRESS_NOT_SUPPORTED_ERROR")

\* --------------------------------------------------------------- C17
\* C17: result_secstatus gives Ok for a success, the error now in the
\* thread-local error state for a failure, and the would-block error for a
\* would-block whatever the error state holds: a would-block is neither a
\* success nor the error a generic failure would report.
C17_SecStatusMapping ==
    last.kind \in {"use_hook", "unset_hook"} =>
        /\ last.sec = "SECSuccess" => last.res = Ok(0)
        /\ last.sec = "SECFailure" => last.res = Err(prError)
        /\ last.sec = "SECWouldBlock" =>
               /\ last.res = Err("PR_WOULD_BLOCK_ERROR")
               /\ last.res.k # "ok"
               /\ prError # "PR_WOULD_BLOCK_ERROR" => last.res # failed(prError)

\* The engine answered would-block while the error state held the error of
\* an earlier failure, and the caller got the would-block error.
C17_Witness ==
    /\ last.kind = "use_hook" /\ last.sec = "SECWouldBlock"
    /\ prError \notin {"none", "PR_WOULD_BLOCK_ERROR"}
    /\ last.res = Err("PR_WOULD_BLOCK_ERROR")

\* --------------------------------------------------------------- C19
\* C19: under any interleaving of first uses of the identity tag by several
\* threads, wrap and dispatch alike, the tag is acquired at most once, only
\* after the library initialization ran, and every header written and every
\* identity check made uses that one tag.
C19_TagAcquiredOnce ==
    /\ once.acquired <= 1
    /\ ~once.early
    /\ once.acquired = 1 => once.inited
    /\ \A i \in ThreadId : once.seen[i] # {} => once.acquired = 1
    /\ Cardinality(once.stamped \cup once.checked
                       \cup UNION {once.seen[i] : i \in ThreadId}) <= 1
    /\ \A i \in ThreadId : once.pc[i] = "read" => once.cell = "done"

\* Two threads have each finished one use, a header has been stamped and a
\* header has been checked, and a further use is arriving at the static.
C19_Witness ==
    /\ once.stamped # {} /\ once.checked # {}
    /\ \E i, j \in ThreadId :
           /\ i # j
           /\ once.seen[i] # {} /\ once.seen[j] # {}
           /\ once.uses[i] = 1 /\ once.uses[j] = 1
    /\ \E i \in ThreadId : once.pc[i] = "deref"

\* --------------------------------------------------------------- C20
\* C20: a write of zero bytes through a TLSSocket whose wrapped transport
\* reports 0 on read and recv returns the end-of-file error, also after a
\* successful connect: the transport's count 0 crosses the recv callback as
\* a successful 0 with the error state untouched, and the handshake that
\* gets it fails with end-of-file.
C20_HandshakeEndOfFile ==
    last.kind = "call" /\ last.op = "write" /\ last.len = 0
        /\ hdr[last.f].methods = "ssl" =>
        /\ \A e \in Events :
               e.op = "recv" /\ e.tres = Ok(0) =>
                   /\ e.out = "ret" /\ e.ret = 0
                   /\ e.errOut = e.errMid
                   /\ e.fd = hdr[last.f].lower =>
                          last.res = Err("PR_END_OF_FILE_ERROR")
        /\ hdr[hdr[last.f].lower].methods = "wrapper"
               /\ box[hdr[hdr[last.f].lower].secret].inner.kind = "fake" =>
               /\ last.res = Err("PR_END_OF_FILE_ERROR")
               /\ \E e \in Events : e.op = "recv" /\ e.tres = Ok(0)

\* The FakeSocket under the TLSSocket is connected, a write of zero bytes
\* ran its recv callback, which returned 0, and the write gave end-of-file.
C20_Witness ==
    /\ last.kind = "call" /\ last.op = "write" /\ last.len = 0
    /\ hdr[last.f].methods = "ssl"
    /\ hdr[hdr[last.f].lower].methods = "wrapper"
    /\ box[hdr[hdr[last.f].lower].secret].inner.kind = "fake"
    /\ box[hdr[hdr[last.f].lower].secret].inner.connected
    /\ \E e \in Events : e.op = "recv" /\ e.tres = Ok(0) /\ e.ret = 0
    /\ last.res = Err("PR_END_OF_FILE_ERROR")

\* --------------------------------------------------------------- C21
\* C21: from a successful use_auth_certificate_hook until the hook is unset
\* or the socket dropped, whatever is done with the socket meanwhile, moving
\* the TLSSocket value included, the argument the security engine holds is
\* the address of the live TLSSocket that owns the handle, and every run of
\* the hook reads through it a socket whose handle is the handle passed in.
C21_HookArgIsSocket ==
    /\ \A t \in TlsId :
           tls[t].st = "live" /\ tls[t].hookArg # 0 =>
               tls[t].hookArg = tls[t].loc
    /\ last.kind = "hook" => last.hk.seen = last.hk.fd

\* --------------------------------------------------------------- C22
\* C22: whatever layers are pushed on a wrapped handle and popped again, the
\* secret of the header carrying the wrapper's identity tag points at the
\* allocation wrap made, whether the header is at its original address or
\* was moved below a pushed layer, so a dispatch through the moved header
\* reaches the transport that was wrapped; and when the pushed layer has
\* been popped the header is back at its address and the close callback's
\* address check passes: the allocation is freed, once.
C22_SecretFollowsHeader ==
    /\ \A a \in Addr :
           hdr[a].mem = "live" /\ hdr[a].identity = WRAPPED_FILE_IDENT =>
               /\ box[hdr[a].secret].st = "live"
               /\ \/ hdr[a].secret = a
                  \/ /\ hdr[hdr[a].secret].mem = "live"
                     /\ hdr[hdr[a].secret].methods = "ssl"
                     /\ hdr[hdr[a].secret].lower = a
    /\ last.kind = "call" /\ last.op = "connect" /\ last.res.k = "ok"
           /\ hdr[last.f].methods = "ssl"
           /\ hdr[hdr[last.f].lower].identity = WRAPPED_FILE_IDENT
           /\ box[last.f].inner.kind = "fake" =>
           /\ hdr[hdr[last.f].lower].secret = last.f
           /\ box[last.f].inner.connected
    /\ last.kind = "tls_drop" /\ box[last.fdAtDrop].st # "none" =>
           /\ last.res = Ok(0)
           /\ box[last.fdAtDrop].st = "freed"
           /\ box[last.fdAtDrop].frees = 1
           /\ hdr[last.fdAtDrop].mem = "freed"

\* A FakeSocket was connected through its header while that sat below the
\* security layer, away from the allocation.
C22_Witness ==
    /\ last.kind = "call" /\ last.op = "connect" /\ last.res.k = "ok"
    /\ hdr[last.f].methods = "ssl"
    /\ hdr[last.f].lower # last.f
    /\ hdr[hdr[last.f].lower].identity = WRAPPED_FILE_IDENT
    /\ hdr[hdr[last.f].lower].secret = last.f
    /\ box[last.f].inner.kind = "fake"
    /\ box[last.f].inner.connected
    /\ \E e \in Events : e.fd = hdr[last.f].lower /\ e.downcast

\* --------------------------------------------------------------- C23
\* C23: under any interleaving of non-close dispatch calls from different
\* threads, on the same handle included, no step of a callback changes a
\* layer header, an operation table, the table reference or the state of an
\* allocation, which transport an allocation owns, or any File; the payload
\* is only ever borrowed shared, never exclusively, by every caller that is
\* inside.  What changes is the transport's own state, in the step that
\* runs its method, and what the caller gets back.
C23_DispatchFrame ==
    [][(\E i \in CallerId : conc'.th[i] # conc.th[i]) =>
           /\ hdr' = hdr /\ table' = table /\ file' = file
           /\ tls' = tls /\ nclose' = nclose /\ nextAddr' = nextAddr
           /\ pipe' = pipe /\ prError' = prError
           /\ \A a \in Addr :
                  /\ box'[a].st = box[a].st
                  /\ box'[a].table = box[a].table
                  /\ box'[a].frees = box[a].frees
                  /\ box'[a].inner.kind = box[a].inner.kind
                  /\ box'[a].inner.file = box[a].inner.file
                  /\ conc'.excl[a] = 0
                  /\ conc'.shared[a] =
                         Cardinality({i \in CallerId : conc'.th[i].a = a})
           /\ box' # box =>
                  \E i \in CallerId :
                      conc.th[i].pc = "borrowed" /\ conc'.th[i].pc = "called"
           /\ \A i \in CallerId :
                  conc'.th[i].err # conc.th[i].err =>
                      conc'.th[i].pc \in {"called", "idle"}]_vars

\* Two threads are inside callbacks on the same handle at once, both holding
\* the payload, one of them having connected the FakeSocket in it.
C23_Witness ==
    \E i, j \in CallerId :
        /\ i # j
        /\ conc.th[i].fd = conc.th[j].fd
        /\ conc.th[i].pc = "called" /\ conc.th[j].pc = "borrowed"
        /\ conc.th[i].op = "connect" /\ conc.th[i].r.k = "ok"
        /\ conc.shared[conc.th[i].a] = 2
        /\ box[conc.th[i].a].inner.kind = "fake"
        /\ box[conc.th[i].a].inner.connected

====
